---- MODULE Spec2Model ----
(***************************************************************************)
(* HTT receive ring, refill engine, physical-address hash table and MSDU   *)
(* reassembly of core/dp/htt/htt_rx.c, as a state machine.                 *)
(*                                                                         *)
(* In the specifications Spec, SpecReasm, SpecPop, SpecHash and SpecSizing *)
(* every handler runs to completion as one action: htt_rx_attach, the two  *)
(* replenish entry points, the refill retry timer, the two pop functions   *)
(* and the delivery of a popped chain.  There the handlers take their turn *)
(* one after the other, so refill_lock is free and refill_ref_cnt is 1 at  *)
(* the entry of each.  In SpecRefill, SpecFill, SpecDebt, SpecDesync and   *)
(* SpecRace the refill engine runs one atomic operation or loop iteration  *)
(* at a time, with the lock, the reference count and the locals of each    *)
(* context as state; SpecFill and SpecRace end with htt_rx_detach.  The    *)
(* address array paddrs_ring, which only the target reads, is kept as      *)
(* posted_at, the slot that holds the address of each posted buffer.       *)
(* SpecMiss is SpecReasm with indications that name buffers the hash table *)
(* does not hold, SpecServe is SpecDebt with calls for one buffer each.    *)
(*                                                                         *)
(* Beside the ring: SpecAccess calls the high-latency descriptor accessors *)
(* on a descriptor word, SpecAttach runs the allocations of htt_rx_attach  *)
(* one at a time with any of them failing, and SpecEpping runs the         *)
(* endpoint-ping transmit path of core/utils/epping/src/epping_tx.c,       *)
(* epping_tx_send and epping_tx_timer_expire, step by step in two          *)
(* contexts (SpecEppingSerial: one handler at a time).                     *)
(*                                                                         *)
(* A physical address (qdf_dma_addr_t, 64 bit) is kept as three limbs      *)
(*   lo  = bits  0..23,  mid = bits 24..36,  hi  = bits 37..63             *)
(* because the model checker's integers are 32 bit wide.                   *)
(***************************************************************************)
EXTENDS Integers, Sequences, FiniteSets, TLC

(***************************************************************************)
(* Bounds of the model.                                                    *)
(***************************************************************************)
\* log2 of the ring size (the program's ring holds 128..2048 slots)
RingOrder == 2
\* number of network buffers the allocator can hand out
NumBufs == 4
\* pre-allocated hash entries per bucket (RX_ENTRIES_SIZE, 10 in the program)
EntriesSize == 2
\* most MSDUs one indication message declares
MaxMsdu == 3
\* most continuation buffers of one chained MSDU (RING2_MORE_COUNT)
MaxChain == 2
\* most MSDUs per indication while pops interleave with the refill engine
SpecMsdu == 1
\* configured throughputs: the multiples of ThruputStride up to
\* ThruputStride * ThruputSteps Mbps, next to the corner values
ThruputStride == 25
ThruputSteps == 120

(***************************************************************************)
(* Program constants.                                                      *)
(***************************************************************************)
HTT_RX_RING_SIZE_MIN == 128
HTT_RX_RING_SIZE_MAX == 2048
HTT_RX_AVG_FRM_BYTES == 1000
HTT_RX_HOST_LATENCY_MAX_MS == 20
\* 20 in a QCA_WIFI_3_0 build, else 10
HTT_RX_HOST_LATENCY_WORST_LIKELY_MS(qca_wifi_3_0) ==
    IF qca_wifi_3_0 THEN 20 ELSE 10
RX_NUM_HASH_BUCKETS == 1024
RX_NUM_HASH_BUCKETS_MASK == RX_NUM_HASH_BUCKETS - 1
\* size of one rx buffer, of the rx descriptor and of the head room reserved for it
HTT_RX_BUF_SIZE == 1920
RX_STD_DESC_SIZE == 384
HTT_RX_STD_DESC_RESERVATION == 384
\* upper 16 bits of the 32-bit pattern that marks a posted address
RX_PADDR_MAGIC_PATTERN_HI16 == 57005
RX_PADDR_MAGIC_PATTERN_LO16 == 0
\* threshold of PEREGRINE_1_0_ZERO_LEN_PHY_ERR_WAR, which the file defines
\* for every build (0x3000)
ZERO_LEN_PHY_ERR_WAR_LEN == 12288

NULL == 0

(***************************************************************************)
(* Bit operations on naturals below 2^30.                                  *)
(***************************************************************************)
Pow2(n) == 2 ^ n

RECURSIVE BitXor(_, _)
BitXor(a, b) ==
    IF a = 0 THEN b
    ELSE IF b = 0 THEN a
    ELSE (((a % 2) + (b % 2)) % 2) + 2 * BitXor(a \div 2, b \div 2)

RECURSIVE BitOr(_, _)
BitOr(a, b) ==
    IF a = 0 THEN b
    ELSE IF b = 0 THEN a
    ELSE (IF (a % 2) + (b % 2) > 0 THEN 1 ELSE 0) + 2 * BitOr(a \div 2, b \div 2)

RECURSIVE BitAnd(_, _)
BitAnd(a, b) ==
    IF a = 0 \/ b = 0 THEN 0
    ELSE (IF (a % 2) + (b % 2) = 2 THEN 1 ELSE 0) + 2 * BitAnd(a \div 2, b \div 2)

(***************************************************************************)
(* Physical addresses.                                                     *)
(***************************************************************************)
LoBits == 24
MidBits == 13
HiBits == 27

Paddr(hi, mid, lo) == [hi |-> hi, mid |-> mid, lo |-> lo]

PADDR_ZERO == Paddr(0, 0, 0)

\* htt_paddr_trim_to_37: keep the lower 37 bits
htt_paddr_trim_to_37(paddr) == [paddr EXCEPT !.hi = 0]

\* (uint64_t)RX_PADDR_MAGIC_PATTERN << 32, in limbs: the pattern's low half
\* lands on bits 32..47, its high half on bits 48..63
MagicShifted ==
    Paddr(BitOr(RX_PADDR_MAGIC_PATTERN_LO16 \div Pow2(5),
                RX_PADDR_MAGIC_PATTERN_HI16 * Pow2(11)),
          (RX_PADDR_MAGIC_PATTERN_LO16 % Pow2(5)) * Pow2(8),
          0)

\* htt_rx_paddr_mark_high_bits, ENABLE_DEBUG_ADDRESS_MARKING variant:
\*   paddr &= 0x01FFFFFFFFF; paddr |= (uint64_t)RX_PADDR_MAGIC_PATTERN << 32
MarkHighBitsDebug(paddr) ==
    Paddr(BitOr(0, MagicShifted.hi), BitOr(paddr.mid, MagicShifted.mid), paddr.lo)

\* htt_rx_paddr_mark_high_bits; marking tells which variant was compiled in
htt_rx_paddr_mark_high_bits(marking, paddr) ==
    IF marking THEN MarkHighBitsDebug(paddr) ELSE paddr

\* the low 20 bits of (a >> n), for n = 14 and n = 4
Shr14(a) == (a.lo \div Pow2(14)) + ((a.mid % Pow2(10)) * Pow2(10))
Shr4(a) == a.lo \div Pow2(4)

\* RX_HASH_FUNCTION(a) = ((a >> 14) ^ (a >> 4)) & RX_NUM_HASH_BUCKETS_MASK
RX_HASH_FUNCTION(a) == BitAnd(BitXor(Shr14(a), Shr4(a)), RX_NUM_HASH_BUCKETS_MASK)

(***************************************************************************)
(* Ring sizing: htt_rx_ring_size and htt_rx_ring_fill_level.               *)
(***************************************************************************)
INT_MAX == 2147483647

\* ol_cfg_max_thruput_mbps(...) * 1000 in int arithmetic: the exact product
\* when it fits, else (signed overflow) whatever int the build produces
ThruputTimes1000(thr) ==
    IF thr >= -(INT_MAX \div 1000) /\ thr <= INT_MAX \div 1000
    THEN {thr * 1000}
    ELSE {-INT_MAX, -8000, -1, 0, 7999, 1024000, 6400000, INT_MAX}

\* C division of ints truncates toward zero
CDiv(a, b) == IF a >= 0 THEN a \div b ELSE -((-a) \div b)

IsPwr2(value) == \E k \in 0 .. 30 : value = Pow2(k)

\* number of right shifts that bring a positive value to zero
RECURSIVE BitLength(_)
BitLength(value) == IF value = 0 THEN 0 ELSE 1 + BitLength(value \div 2)

\* qdf_get_pwr2 on a value of 0 .. 2^30: the value itself when QDF_IS_PWR2
\* holds of it (it does of 0), else 1 << (number of shifts that clear it)
qdf_get_pwr2(value) ==
    IF value = 0 \/ IsPwr2(value) THEN value ELSE Pow2(BitLength(value))

\* htt_rx_ring_size without the rounding of qdf_get_pwr2
htt_rx_ring_size_unrounded(prod) ==
    LET size == CDiv(prod, 8 * HTT_RX_AVG_FRM_BYTES) * HTT_RX_HOST_LATENCY_MAX_MS
    IN IF size < HTT_RX_RING_SIZE_MIN THEN HTT_RX_RING_SIZE_MIN
       ELSE IF size > HTT_RX_RING_SIZE_MAX THEN HTT_RX_RING_SIZE_MAX
       ELSE size

\* htt_rx_ring_size; prod is the value of max_thruput_mbps * 1000
htt_rx_ring_size(prod) ==
    LET size == CDiv(prod, 8 * HTT_RX_AVG_FRM_BYTES) * HTT_RX_HOST_LATENCY_MAX_MS
    IN qdf_get_pwr2(IF size < HTT_RX_RING_SIZE_MIN THEN HTT_RX_RING_SIZE_MIN
                    ELSE IF size > HTT_RX_RING_SIZE_MAX THEN HTT_RX_RING_SIZE_MAX
                    ELSE size)

\* the value of htt_rx_ring_fill_level before qdf_get_pwr2
FillLevelRaw(prod, qca_wifi_3_0) ==
    CDiv(prod, 8 * HTT_RX_AVG_FRM_BYTES)
        * HTT_RX_HOST_LATENCY_WORST_LIKELY_MS(qca_wifi_3_0)

\* htt_rx_ring_fill_level that clamps to the ring size itself
htt_rx_ring_fill_level_full(prod, qca_wifi_3_0, ring_size) ==
    IF qdf_get_pwr2(FillLevelRaw(prod, qca_wifi_3_0)) >= ring_size
    THEN ring_size
    ELSE qdf_get_pwr2(FillLevelRaw(prod, qca_wifi_3_0))

\* htt_rx_ring_fill_level; ring_size is pdev->rx_ring.size
htt_rx_ring_fill_level(prod, qca_wifi_3_0, ring_size) ==
    IF qdf_get_pwr2(FillLevelRaw(prod, qca_wifi_3_0)) >= ring_size
    THEN ring_size - 1
    ELSE qdf_get_pwr2(FillLevelRaw(prod, qca_wifi_3_0))

\* values of ol_cfg_max_thruput_mbps (an int from the configuration)
Thruputs ==
    {-1, 0, 1, 7, 8, 9, 1000, INT_MAX \div 1000, INT_MAX \div 1000 + 1, INT_MAX}
    \cup {ThruputStride * k : k \in 1 .. ThruputSteps}

\* values of pdev->rx_ring.size: what htt_rx_ring_size can return
RingSizes == {Pow2(k) : k \in 7 .. 11}

\* no sizing function has been called
SizedNone == [op |-> "none", thr |-> 0, wifi3 |-> FALSE, size |-> 0, prod |-> 0,
              result |-> 0]

(***************************************************************************)
(* The ring and the buffers.                                               *)
(***************************************************************************)
RingSize == Pow2(RingOrder)
SizeMask == RingSize - 1
Slots == 0 .. SizeMask

Buffers == 1 .. NumBufs

\* qdf_nbuf_get_frag_paddr: the physical address of buffer b.  Live buffers
\* have distinct 4-byte aligned addresses at least HTT_RX_BUF_SIZE apart; two
\* buffers in three share one hash bucket, the third lies above 4 GB.
NbufPaddr(b) ==
    IF b % 3 # 0
    THEN Paddr(0, 0, b * 16400)
    ELSE Paddr(0, 256 + b, 2048 * b)

\* the builds and attach-time configurations: ring mode, address marking
\* (ENABLE_DEBUG_ADDRESS_MARKING), cds_is_self_recovery_enabled
Configs ==
    { [full_reorder |-> FALSE, marking |-> FALSE, self_recovery |-> TRUE,
        debug_dma_done |-> FALSE, rx_restore |-> FALSE],
      [full_reorder |-> FALSE, marking |-> TRUE, self_recovery |-> TRUE,
        debug_dma_done |-> FALSE, rx_restore |-> FALSE],
      [full_reorder |-> TRUE, marking |-> TRUE, self_recovery |-> TRUE,
        debug_dma_done |-> FALSE, rx_restore |-> FALSE],
      [full_reorder |-> TRUE, marking |-> FALSE, self_recovery |-> TRUE,
        debug_dma_done |-> FALSE, rx_restore |-> FALSE] }

VARIABLES
    cfg,            \* pdev->cfg.is_full_reorder_offload and the build flags
    attached,       \* htt_rx_attach has run
    health,         \* "ok", "recovering" (cds_trigger_recovery), "aborted" (assert)
    alloc_idx,      \* *pdev->rx_ring.alloc_idx.vaddr, shared with the target
    sw_rd_idx,      \* pdev->rx_ring.sw_rd_idx.msdu_payld
    fill_cnt,       \* pdev->rx_ring.fill_cnt
    fill_level,     \* pdev->rx_ring.fill_level
    netbufs_ring,   \* pdev->rx_ring.buf.netbufs_ring
    refill_debt,    \* pdev->rx_ring.refill_debt
    timer_armed,    \* pdev->rx_ring.refill_retry_timer is running
    hash_table,     \* pdev->rx_ring.hash_table, the buckets in use
    nbuf,           \* the network buffers: state, length, next link
    pop,            \* outputs of the last pop call and what it consumed
    alloc_failed,   \* history: some qdf_nbuf_alloc has failed
    sized,          \* a call of a ring sizing function: inputs and result
    refill_lock,    \* pdev->rx_ring.refill_lock: "free" or the context holding it
    refill_ref_cnt, \* pdev->rx_ring.refill_ref_cnt
    ctx,            \* per context: position in the code and the locals of
                    \* htt_rx_ring_fill_n and its caller
    posted_at,      \* pdev->rx_ring.buf.paddrs_ring as a relation: the slot
                    \* that holds the address of each posted buffer
    hw_stale,       \* the slots of paddrs_ring whose last write by the host
                    \* the target cannot read yet
    post_order,     \* history: the buffers written to netbufs_ring and not
                    \* yet popped, in the order of the writes
    msdu_desc,      \* a call of a high-latency descriptor accessor: the
                    \* first word of the descriptor and the result
    rx_attach,      \* the allocations of a call of htt_rx_attach in progress
    nodrop_queue,   \* pAdapter->nodrop_queue
    epping_timer_state, \* pAdapter->epping_timer_state
    epping_timer,   \* pAdapter->epping_timer has an expiry pending
    tx_dropped,     \* pAdapter->stats.tx_dropped
    htc_pkts,       \* history: the packets htc_send_pkt accepted, in order
    skbs,           \* the packets submitted to epping_tx_send: header bits
                    \* and whether the buffer has been freed
    ep              \* per context of the endpoint-ping transmit path:
                    \* position in the code and locals

ringVars == <<alloc_idx, sw_rd_idx, fill_cnt, fill_level, netbufs_ring>>
refillVars == <<refill_debt, timer_armed>>
\* the variables only the stepwise refill engine moves; the specifications
\* that run each handler as one step leave them as attach initialised them
stepVars == <<refill_lock, refill_ref_cnt, ctx, posted_at, hw_stale,
              post_order>>
\* the endpoint-ping adapter
eppingVars == <<nodrop_queue, epping_timer_state, epping_timer, tx_dropped,
                htc_pkts, skbs, ep>>
\* what the rx ring handlers never touch
sideVars == <<msdu_desc, rx_attach, eppingVars>>
\* the rx ring of the pdev
pdevVars == <<cfg, attached, health, ringVars, refillVars, hash_table, nbuf,
              pop, alloc_failed, sized, stepVars>>
vars == <<pdevVars, sideVars>>

(***************************************************************************)
(* Network buffers (qdf_nbuf).                                             *)
(***************************************************************************)
NbufFree == [st |-> "free", len |-> 0, next |-> NULL]

FreeBufs(nb) == {b \in Buffers : nb[b].st = "free"}

\* qdf_nbuf_alloc: the allocator hands out the free buffer of lowest address
NbufAlloc(nb) == CHOOSE b \in FreeBufs(nb) : \A o \in FreeBufs(nb) : b <= o

\* qdf_nbuf_trim_tail(buf, n): n is a size; a size the buffer cannot give up
\* (a negative int seen as a huge unsigned one, or more than the length)
\* leaves the buffer as it is
TrimTail(len, n) == IF n >= 0 /\ n <= len THEN len - n ELSE len

(***************************************************************************)
(* The hash table of posted buffers (full reorder offload).                *)
(***************************************************************************)
\* RX_HASH_FUNCTION over the trimmed addresses of the buffers, computed once
BufPaddrs == {htt_paddr_trim_to_37(NbufPaddr(b)) : b \in Buffers}

HashOfBufPaddr == [a \in BufPaddrs |-> RX_HASH_FUNCTION(a)]

\* the bucket index i = RX_HASH_FUNCTION(paddr) of insert and lookup
BucketIndex(paddr) ==
    IF paddr \in BufPaddrs THEN HashOfBufPaddr[paddr] ELSE RX_HASH_FUNCTION(paddr)

Buckets == {HashOfBufPaddr[a] : a \in BufPaddrs}

\* a pre-allocated entry while it is on the free pool
PoolEntry == [fromlist |-> 1, paddr |-> PADDR_ZERO, netbuf |-> NULL]

\* htt_rx_hash_init: every bucket starts with an empty active list and
\* EntriesSize pre-allocated entries on its free pool
htt_rx_hash_init ==
    [i \in Buckets |->
        [listhead |-> <<>>, freepool |-> [j \in 1 .. EntriesSize |-> PoolEntry]]]

\* htt_list_remove that unlinks the first node whatever k is
ListRemoveHead(list, k) == Tail(list)

\* htt_list_remove of the k-th node of a list
ListRemove(list, k) == SubSeq(list, 1, k - 1) \o SubSeq(list, k + 1, Len(list))

\* htt_rx_hash_list_insert that keeps the marking bits of the address
htt_rx_hash_list_insert_untrimmed(ht, paddr_in, netbuf, malloc_ok) ==
    LET paddr == paddr_in
        i == BucketIndex(paddr)
    IN IF ht[i].freepool # <<>>
       THEN LET el == [Head(ht[i].freepool) EXCEPT !.netbuf = netbuf, !.paddr = paddr]
            IN [rc |-> 0,
                ht |-> [ht EXCEPT ![i].freepool = Tail(@),
                                  ![i].listhead = Append(@, el)]]
       ELSE IF ~malloc_ok
            THEN [rc |-> 1, ht |-> ht]
            ELSE LET el == [fromlist |-> 0, paddr |-> paddr, netbuf |-> netbuf]
                 IN [rc |-> 0, ht |-> [ht EXCEPT ![i].listhead = Append(@, el)]]

\* htt_rx_hash_list_insert that has no overflow allocation: it fails as soon
\* as the free pool of the bucket is empty
htt_rx_hash_list_insert_pool_only(ht, paddr_in, netbuf, malloc_ok) ==
    LET paddr == htt_paddr_trim_to_37(paddr_in)
        i == BucketIndex(paddr)
    IN IF ht[i].freepool # <<>>
       THEN LET el == [Head(ht[i].freepool) EXCEPT !.netbuf = netbuf, !.paddr = paddr]
            IN [rc |-> 0,
                ht |-> [ht EXCEPT ![i].freepool = Tail(@),
                                  ![i].listhead = Append(@, el)]]
       ELSE [rc |-> 1, ht |-> ht]

\* htt_rx_hash_list_insert; malloc_ok is the outcome of qdf_mem_malloc when
\* the free pool is empty.  Yields the return code and the table.
htt_rx_hash_list_insert(ht, paddr_in, netbuf, malloc_ok) ==
    LET paddr == htt_paddr_trim_to_37(paddr_in)
        i == BucketIndex(paddr)
    IN IF ht[i].freepool # <<>>
       THEN LET el == [Head(ht[i].freepool) EXCEPT !.netbuf = netbuf, !.paddr = paddr]
            IN [rc |-> 0,
                ht |-> [ht EXCEPT ![i].freepool = Tail(@),
                                  ![i].listhead = Append(@, el)]]
       ELSE IF ~malloc_ok
            THEN [rc |-> 1, ht |-> ht]
            ELSE LET el == [fromlist |-> 0, paddr |-> paddr, netbuf |-> netbuf]
                 IN [rc |-> 0, ht |-> [ht EXCEPT ![i].listhead = Append(@, el)]]

\* htt_rx_hash_list_lookup that takes the first entry of the bucket without
\* comparing addresses
htt_rx_hash_list_lookup_first(ht, paddr) ==
    LET i == BucketIndex(paddr)
    IN IF ht[i].listhead = <<>>
       THEN [netbuf |-> NULL, ht |-> ht]
       ELSE [netbuf |-> ht[i].listhead[1].netbuf,
             ht |-> IF ht[i].listhead[1].fromlist = 1
                    THEN [ht EXCEPT ![i].listhead = Tail(@),
                                    ![i].freepool = Append(@, PoolEntry)]
                    ELSE [ht EXCEPT ![i].listhead = Tail(@)]]

\* htt_rx_hash_list_lookup that puts every removed entry on the free pool,
\* the separately allocated ones too
htt_rx_hash_list_lookup_pool_all(ht, paddr) ==
    LET i == BucketIndex(paddr)
        hits == {k \in 1 .. Len(ht[i].listhead) : ht[i].listhead[k].paddr = paddr}
    IN IF hits = {}
       THEN [netbuf |-> NULL, ht |-> ht]
       ELSE LET k == CHOOSE x \in hits : \A y \in hits : x <= y
                el == ht[i].listhead[k]
            IN [netbuf |-> el.netbuf,
                ht |-> [ht EXCEPT ![i].listhead = ListRemove(@, k),
                                  ![i].freepool = Append(@, PoolEntry)]]

\* htt_rx_hash_list_lookup: the first entry of the bucket's active list with
\* this address is removed; yields its buffer (NULL on a miss) and the table.
\* An entry returned to the free pool keeps its address in the program; the
\* model clears it, since the next insert overwrites it before any read.
htt_rx_hash_list_lookup(ht, paddr) ==
    LET i == BucketIndex(paddr)
        hits == {k \in 1 .. Len(ht[i].listhead) : ht[i].listhead[k].paddr = paddr}
    IN IF hits = {}
       THEN [netbuf |-> NULL, ht |-> ht]
       ELSE LET k == CHOOSE x \in hits : \A y \in hits : x <= y
                el == ht[i].listhead[k]
            IN [netbuf |-> el.netbuf,
                ht |-> IF el.fromlist = 1
                       THEN [ht EXCEPT ![i].listhead = ListRemove(@, k),
                                       ![i].freepool = Append(@, PoolEntry)]
                       ELSE [ht EXCEPT ![i].listhead = ListRemove(@, k)]]

(***************************************************************************)
(* htt_rx_ring_fill_n and its callers.                                     *)
(***************************************************************************)
\* most buffers one in-order replenish call asks for
MaxNum == RingSize + 1
\* calls start only while the debt counter stays within 0 .. DebtCap
DebtCap == MaxNum

\* what goes wrong in one fill call: buffer number at (counted from 1) fails
\* in qdf_nbuf_alloc, in qdf_nbuf_map or in the qdf_mem_malloc of
\* htt_rx_hash_list_insert; at = 0 when nothing is made to fail
NoFail == [at |-> 0, kind |-> "none"]

\* the plans for a call that attempts at most most buffers
FailPlans(most) ==
    {NoFail} \cup {[at |-> k, kind |-> x] : k \in 1 .. most,
                                          x \in {"alloc", "map", "insert"}}

\* most buffers a call for num buffers attempts: num, the debt, and no more
\* than there are buffers
Attempts(num) ==
    LET want == IF num > RingSize THEN 0
                ELSE (IF num > 0 THEN num ELSE 0)
                     + (IF refill_debt > 0 THEN refill_debt ELSE 0)
    IN IF want > NumBufs THEN NumBufs ELSE want

\* the loop while (num > 0) with the debt pass after it, up to the label
\* update_alloc_idx; debt is the value of refill_debt during the call
RECURSIVE FillLoop(_, _, _)
FillLoop(f, debt, fail) ==
    IF f.num > 0
    THEN LET kind == IF FreeBufs(f.nb) = {} THEN "alloc"
                     ELSE IF f.filled + 1 = fail.at THEN fail.kind
                     ELSE "none"
         IN IF kind = "alloc"
            THEN \* the retry timer is restarted, goto update_alloc_idx
                 [f EXCEPT !.timer = TRUE, !.afail = TRUE]
            ELSE IF kind = "map"
            THEN \* qdf_nbuf_free, goto update_alloc_idx
                 f
            ELSE LET b == NbufAlloc(f.nb)
                     paddr == NbufPaddr(b)
                     paddr_marked == htt_rx_paddr_mark_high_bits(cfg.marking, paddr)
                     ins == htt_rx_hash_list_insert(f.ht, paddr_marked, b,
                                                    kind # "insert")
                 IN IF cfg.full_reorder /\ ins.rc # 0
                    THEN \* unmap, free, goto update_alloc_idx
                         f
                    ELSE FillLoop(
                            [f EXCEPT
                                !.ht = IF cfg.full_reorder THEN ins.ht ELSE @,
                                !.ring = IF cfg.full_reorder THEN @
                                         ELSE [@ EXCEPT ![f.idx] = b],
                                !.nb[b] = [st |-> "mapped",
                                           len |-> HTT_RX_BUF_SIZE,
                                           next |-> NULL],
                                !.fc = @ + 1,
                                !.num = @ - 1,
                                !.idx = (f.idx + 1) % RingSize,
                                !.filled = @ + 1],
                            debt, fail)
    ELSE IF f.debt_served < debt
         THEN FillLoop([f EXCEPT !.num = debt, !.debt_served = @ + debt],
                       debt, fail)
         ELSE f

\* htt_rx_ring_fill_n(pdev, num): the entry guard, the loop and the
\* publication of the index; .filled is the return value
htt_rx_ring_fill_n(num, fail) ==
    LET f0 == [idx |-> alloc_idx, num |-> num, filled |-> 0, debt_served |-> 0,
               fc |-> fill_cnt, ring |-> netbufs_ring, ht |-> hash_table,
               nb |-> nbuf, timer |-> timer_armed, afail |-> alloc_failed]
    IN IF alloc_idx < 0 \/ alloc_idx > SizeMask \/ num > RingSize
       THEN f0
       ELSE FillLoop(f0, refill_debt, fail)

\* FillApply that publishes the index only when the loop ran to its end
FillApplyUnpublishedOnFail(f) ==
    /\ alloc_idx' = IF f.num > 0 THEN alloc_idx ELSE f.idx
    /\ fill_cnt' = f.fc
    /\ netbufs_ring' = f.ring
    /\ hash_table' = f.ht
    /\ nbuf' = f.nb
    /\ timer_armed' = f.timer
    /\ alloc_failed' = f.afail

\* the effect of one htt_rx_ring_fill_n call on the ring, the table and the
\* buffers; update_alloc_idx: *alloc_idx.vaddr = idx
FillApply(f) ==
    /\ alloc_idx' = f.idx
    /\ fill_cnt' = f.fc
    /\ netbufs_ring' = f.ring
    /\ hash_table' = f.ht
    /\ nbuf' = f.nb
    /\ timer_armed' = f.timer
    /\ alloc_failed' = f.afail

\* a handler starts while the driver is healthy and the chain of the last
\* pop has been handed on
CanStart == health = "ok" /\ pop.kind = "none"

\* htt_rx_attach, from the initialisation of the counters to the first fill
Attach(fail) ==
    /\ CanStart /\ ~attached
    /\ attached' = TRUE
    /\ FillApply(htt_rx_ring_fill_n(fill_level, fail))
    /\ UNCHANGED <<stepVars, sized, cfg, sideVars, health, sw_rd_idx, fill_level, refill_debt, pop>>

\* htt_rx_msdu_buff_replenish: htt_rx_fill_ring_count fills
\* num_to_fill = fill_level - fill_cnt
Replenish(fail) ==
    /\ CanStart /\ attached /\ ~cfg.full_reorder
    /\ FillApply(htt_rx_ring_fill_n(fill_level - fill_cnt, fail))
    /\ UNCHANGED <<stepVars, sized, cfg, sideVars, attached, health, sw_rd_idx, fill_level, refill_debt,
                   pop>>

\* htt_rx_msdu_buff_in_order_replenish(pdev, num) when the trylock succeeds:
\* after the fill the surplus is taken off the debt or the shortfall added
InOrderReplenish(num, fail) ==
    LET f == htt_rx_ring_fill_n(num, fail)
    IN /\ CanStart /\ attached /\ cfg.full_reorder
       /\ refill_debt + num <= DebtCap
       /\ FillApply(f)
       /\ refill_debt' = IF f.filled > num
                         THEN refill_debt - (f.filled - num)
                         ELSE refill_debt + (num - f.filled)
       /\ UNCHANGED <<stepVars, sized, cfg, sideVars, attached, health, sw_rd_idx, fill_level, pop>>

\* htt_rx_ring_refill_retry, run when the retry timer expires: the whole
\* debt is taken off the counter and filled
Retry(fail) ==
    LET num == refill_debt
        debt == refill_debt - num
        f0 == [idx |-> alloc_idx, num |-> num, filled |-> 0, debt_served |-> 0,
               fc |-> fill_cnt, ring |-> netbufs_ring, ht |-> hash_table,
               nb |-> nbuf, timer |-> FALSE, afail |-> alloc_failed]
        f == IF alloc_idx < 0 \/ alloc_idx > SizeMask \/ num > RingSize
             THEN f0
             ELSE FillLoop(f0, debt, fail)
    IN /\ CanStart /\ attached /\ timer_armed
       /\ FillApply(f)
       /\ refill_debt' = IF f.filled > num THEN debt - (f.filled - num)
                         ELSE IF num = f.filled THEN debt
                         ELSE debt + (num - f.filled)
       /\ UNCHANGED <<stepVars, sized, cfg, sideVars, attached, health, sw_rd_idx, fill_level, pop>>

(***************************************************************************)
(* Reassembly in address-ordered mode: htt_rx_amsdu_rx_in_order_pop_ll.    *)
(***************************************************************************)
\* what the last pop call returned (head, tail, return value) and, as
\* history, the message it consumed and the trim amounts it applied
PopNone == [kind |-> "none", head |-> NULL, tail |-> NULL, ret |-> 0,
            trims |-> <<>>, ctrims |-> <<>>, msg |-> <<>>, count |-> 0,
            taken |-> 0, fates |-> <<>>]

\* the data length of a buffer handed to the hardware whole, after
\* qdf_nbuf_set_pktlen(HTT_RX_BUF_SIZE) and
\* qdf_nbuf_pull_head(HTT_RX_STD_DESC_RESERVATION)
PayloadLen == HTT_RX_BUF_SIZE - HTT_RX_STD_DESC_RESERVATION

\* the per-MSDU records of in-order indications: declared length, the
\* FW_RX_DESC_ANY_ERR_M and FW_RX_DESC_DISCARD_M flags of the fw_desc byte
MsduLens == {60, HTT_RX_BUF_SIZE - RX_STD_DESC_SIZE, 1600}

InOrdKinds ==
    {[len |-> l, err |-> FALSE, discard |-> FALSE] : l \in MsduLens}
    \cup {[len |-> 60, err |-> TRUE, discard |-> d] : d \in BOOLEAN}

InOrdPlain == {[len |-> 60, err |-> FALSE, discard |-> FALSE]}

\* buffers the target holds: posted and not yet returned
Posted == {b \in Buffers : nbuf[b].st = "mapped"}

\* the address the target was given for buffer b
PostedPaddr(b) == htt_rx_paddr_mark_high_bits(cfg.marking, NbufPaddr(b))

\* the sequences of up to n records, each naming a different buffer of bufs
RECURSIVE InOrdSeqs(_, _, _)
InOrdSeqs(n, bufs, kinds) ==
    IF n = 0 THEN {<<>>}
    ELSE {<<>>} \cup
         UNION {{<<[buf |-> b, paddr |-> PostedPaddr(b), len |-> k.len,
                    err |-> k.err, discard |-> k.discard,
                    done |-> "done"]>> \o rest :
                 k \in kinds, rest \in InOrdSeqs(n - 1, bufs \ {b}, kinds)} :
                b \in bufs}

\* the in-order indications the target can send while the data path is
\* ready for one: up to maxN records, each naming a different buffer it
\* holds, in any order
InOrdMsgs(maxN, kinds) ==
    IF CanStart /\ attached /\ cfg.full_reorder
    THEN InOrdSeqs(maxN, Posted, kinds) \ {<<>>}
    ELSE {}

\* htt_rx_in_ord_paddr_get: the address field of a per-MSDU record
htt_rx_in_ord_paddr_get(rec) == rec.paddr

\* a miss of htt_rx_hash_list_lookup that is passed over in silence
MissOutcomeIgnored == "ok"

\* a lookup miss: cds_trigger_recovery if self recovery is enabled, else
\* HTT_ASSERT_ALWAYS(0)
MissOutcome == IF cfg.self_recovery THEN "recovering" ELSE "aborted"

\* htt_rx_in_order_netbuf_pop(pdev, paddr): fill_cnt--, then the lookup under
\* the address trimmed to 37 bits; r.got is the buffer returned
htt_rx_in_order_netbuf_pop(r, paddr) ==
    LET lk == htt_rx_hash_list_lookup(r.ht, htt_paddr_trim_to_37(paddr))
    IN [r EXCEPT !.fc = @ - 1, !.ht = lk.ht, !.got = lk.netbuf,
                 !.health = IF lk.netbuf = NULL THEN MissOutcome ELSE @]

\* UnchainedTrim without the room of the rx descriptor
UnchainedTrimNoDesc(len) == HTT_RX_BUF_SIZE - len

\* the trim amount of an unchained MSDU of declared length len
UnchainedTrim(len) == HTT_RX_BUF_SIZE - (RX_STD_DESC_SIZE + len)

\* enum rx_pkt_fate, the two values the pop passes on
RX_PKT_FATE_SUCCESS == "RX_PKT_FATE_SUCCESS"
RX_PKT_FATE_FW_DROP_INVALID == "RX_PKT_FATE_FW_DROP_INVALID"

\* the local variable status after the test before the packet dump callback:
\* it is declared outside the loop and only ever assigned
\* RX_PKT_FATE_FW_DROP_INVALID
PktDumpStatus(status, rec) ==
    IF rec.err /\ ~rec.discard THEN RX_PKT_FATE_FW_DROP_INVALID ELSE status

\* the head of the loop body on buffer r.msdu and record rec:
\* set_pktlen, unmap, pull_head, trim_tail, msdu_count--, then
\* pdev->rx_pkt_dump_cb(msdu, peer_id, status) of a registered callback
InOrderPrepare(r, rec) ==
    [r EXCEPT !.nb[r.msdu].st = "unmapped",
              !.nb[r.msdu].len = TrimTail(PayloadLen, UnchainedTrim(rec.len)),
              !.cnt = @ - 1,
              !.trims = Append(@, UnchainedTrim(rec.len)),
              !.status = PktDumpStatus(@, rec),
              !.fates = Append(@, PktDumpStatus(r.status, rec))]

\* htt_rx_desc_frame_free(pdev, msdu)
InOrderFree(r) == [r EXCEPT !.nb[r.msdu] = NbufFree]

\* the erroring MSDU was the last one of the message
InOrderErrLast(r) ==
    IF r.prev = NULL
    THEN [r EXCEPT !.head = NULL, !.tail = NULL, !.ret = 0, !.stop = TRUE]
    ELSE [r EXCEPT !.tail = r.prev, !.nb[r.prev].next = NULL, !.stop = TRUE]

\* InOrderErrNext without the update of the preceding buffer's next link
InOrderErrNextNoSplice(r) ==
    IF r.got = NULL
    THEN [r EXCEPT !.tail = NULL, !.ret = 0, !.stop = TRUE]
    ELSE IF r.prev # NULL
         THEN [r EXCEPT !.msdu = r.got, !.i = @ + 1]
         ELSE [r EXCEPT !.head = r.got, !.msdu = r.got, !.i = @ + 1]

\* the erroring MSDU was not the last one: r has popped the next buffer
InOrderErrNext(r) ==
    IF r.got = NULL
    THEN [r EXCEPT !.tail = NULL, !.ret = 0, !.stop = TRUE]
    ELSE IF r.prev # NULL
         THEN [r EXCEPT !.nb[r.prev].next = r.got, !.msdu = r.got, !.i = @ + 1]
         ELSE [r EXCEPT !.head = r.got, !.msdu = r.got, !.i = @ + 1]

\* a good MSDU that is not the last one: r has popped the next buffer
InOrderLinkNext(r) ==
    IF r.got = NULL
    THEN [r EXCEPT !.tail = NULL, !.ret = 0, !.stop = TRUE]
    ELSE [r EXCEPT !.nb[r.msdu].next = r.got, !.prev = r.msdu, !.msdu = r.got,
                   !.i = @ + 1]

\* a good MSDU that is the last one
InOrderLinkLast(r) == [r EXCEPT !.tail = r.msdu, !.nb[r.msdu].next = NULL]

\* the rest of the loop body, after InOrderPrepare
InOrderBody(r, msg) ==
    IF msg[r.i].err /\ ~msg[r.i].discard
    THEN IF r.cnt = 0
         THEN InOrderErrLast(InOrderFree(r))
         ELSE InOrderErrNext(htt_rx_in_order_netbuf_pop(InOrderFree(r),
                                htt_rx_in_ord_paddr_get(msg[r.i + 1])))
    ELSE IF r.cnt > 0
         THEN InOrderLinkNext(htt_rx_in_order_netbuf_pop(r,
                                htt_rx_in_ord_paddr_get(msg[r.i + 1])))
         ELSE InOrderLinkLast(r)

\* while (msdu_count > 0), until the loop ends or a goto end leaves it
RECURSIVE InOrderLoop(_, _)
InOrderLoop(r, msg) ==
    IF r.cnt <= 0 \/ r.stop THEN r
    ELSE InOrderLoop(InOrderBody(InOrderPrepare(r, msg[r.i]), msg), msg)

\* the first pop of the call
InOrderFirst(r) ==
    IF r.got = NULL
    THEN [r EXCEPT !.ret = 0, !.stop = TRUE]
    ELSE [r EXCEPT !.head = r.got, !.msdu = r.got]

\* htt_rx_amsdu_rx_in_order_pop_ll on an indication that is not an offload
\* indication; msdu_count is the number of records
htt_rx_amsdu_rx_in_order_pop_ll(msg) ==
    InOrderLoop(
        InOrderFirst(
            htt_rx_in_order_netbuf_pop(
                [ht |-> hash_table, nb |-> nbuf, fc |-> fill_cnt,
                 health |-> health, head |-> NULL, tail |-> NULL, prev |-> NULL,
                 msdu |-> NULL, got |-> NULL, ret |-> 1, cnt |-> Len(msg),
                 i |-> 1, stop |-> FALSE, trims |-> <<>>,
                 status |-> RX_PKT_FATE_SUCCESS, fates |-> <<>>],
                htt_rx_in_ord_paddr_get(msg[1]))),
        msg)

\* the data path handles one in-order indication
InOrderPop(msg) ==
    LET r == htt_rx_amsdu_rx_in_order_pop_ll(msg)
    IN /\ CanStart /\ attached /\ cfg.full_reorder
       /\ Posted # {}
       /\ hash_table' = r.ht
       /\ nbuf' = r.nb
       /\ fill_cnt' = r.fc
       /\ health' = r.health
       /\ pop' = [kind |-> "in_order", head |-> r.head, tail |-> r.tail,
                  ret |-> r.ret, trims |-> r.trims, ctrims |-> <<>>,
                  msg |-> msg, count |-> pop.count,
                  taken |-> fill_cnt - r.fc, fates |-> r.fates]
       /\ UNCHANGED <<stepVars, sized, cfg, sideVars, attached, alloc_idx, sw_rd_idx, fill_level,
                      netbufs_ring, refillVars, alloc_failed>>

(***************************************************************************)
(* Reassembly in ordered mode: htt_rx_amsdu_pop_ll.                        *)
(***************************************************************************)
\* htt_rx_ring_elems: the buffers between the read index and the write index
htt_rx_ring_elems == (alloc_idx - sw_rd_idx) % RingSize

\* MSDU lengths the hardware descriptor can declare (a 14 bit field)
DescLens == {100, 2020, 4000, 16383}

\* the sequences of up to n MSDU descriptors that occupy at most room buffers
RECURSIVE DescSeqs(_, _, _, _, _)
DescSeqs(n, room, lens, maxChain, errs) ==
    IF n = 0 \/ room = 0 THEN {<<>>}
    ELSE {<<>>} \cup
         UNION {{<<[len |-> l, chained |-> c, len_err |-> e,
                    done |-> "done"]>> \o rest :
                 l \in lens, e \in errs,
                 rest \in DescSeqs(n - 1, room - 1 - c, lens, maxChain, errs)} :
                c \in {x \in 0 .. maxChain : 1 + x <= room}}

\* what the hardware can have written for one MPDU while the data path is
\* ready for it: up to maxN MSDUs, each with a declared length, a count of
\* continuation buffers (RING2_MORE_COUNT) and the MPDU_LENGTH_ERR flag; the
\* last MSDU carries LAST_MSDU; the MPDU fits the buffers the ring holds
OrderedDescs(maxN, lens, maxChain, errs) ==
    IF CanStart /\ attached /\ ~cfg.full_reorder
    THEN DescSeqs(maxN, htt_rx_ring_elems, lens, maxChain, errs) \ {<<>>}
    ELSE {}

\* htt_rx_netbuf_pop: the buffer of the slot at the read index; r.got is
\* the buffer returned
htt_rx_netbuf_pop(r) ==
    [r EXCEPT !.got = netbufs_ring[r.rd],
              !.rd = (r.rd + 1) % RingSize,
              !.fc = @ - 1]

\* ((unsigned int)a) > ((unsigned int)b) for two ints
UnsignedGt(a, b) == IF (a < 0) = (b < 0) THEN a > b ELSE a < 0

\* ClampResidual with the comparison made on signed ints
ClampResidualSigned(len) ==
    IF len > HTT_RX_BUF_SIZE - RX_STD_DESC_SIZE
    THEN HTT_RX_BUF_SIZE - RX_STD_DESC_SIZE
    ELSE len

\* the clamp of the residual length of a chained MSDU
ClampResidual(len) ==
    IF UnsignedGt(len, HTT_RX_BUF_SIZE - RX_STD_DESC_SIZE)
    THEN HTT_RX_BUF_SIZE - RX_STD_DESC_SIZE
    ELSE len

\* the head of the loop body on buffer r.msdu with descriptor d: set_pktlen,
\* unmap, pull_head, and the trim of an unchained MSDU without length error
\* unless the workaround skips it
OrderedPrepare(r, d) ==
    IF ~d.len_err /\ d.chained = 0 /\ d.len <= ZERO_LEN_PHY_ERR_WAR_LEN
    THEN [r EXCEPT !.nb[r.msdu].st = "unmapped",
                   !.nb[r.msdu].len = TrimTail(PayloadLen, UnchainedTrim(d.len)),
                   !.trims = Append(@, UnchainedTrim(d.len)),
                   !.len = d.len,
                   !.left = d.chained]
    ELSE [r EXCEPT !.nb[r.msdu].st = "unmapped",
                   !.nb[r.msdu].len = PayloadLen,
                   !.len = d.len,
                   !.left = d.chained]

\* one pass of while (msdu_chained--): r has popped the continuation buffer
\* r.got; the last one is trimmed to the clamped residual length
OrderedChainStep(r) ==
    IF r.left - 1 = 0
    THEN [r EXCEPT
            !.nb[r.got].len =
                TrimTail(HTT_RX_BUF_SIZE,
                         UnchainedTrim(ClampResidual(r.len - HTT_RX_BUF_SIZE))),
            !.nb[r.msdu].next = r.got,
            !.msdu = r.got,
            !.chaining = 1,
            !.len = ClampResidual(r.len - HTT_RX_BUF_SIZE),
            !.left = 0,
            !.ctrims = Append(@,
                         UnchainedTrim(ClampResidual(r.len - HTT_RX_BUF_SIZE)))]
    ELSE [r EXCEPT !.nb[r.got].len = HTT_RX_BUF_SIZE,
                   !.nb[r.msdu].next = r.got,
                   !.msdu = r.got,
                   !.chaining = 1,
                   !.len = r.len - HTT_RX_BUF_SIZE,
                   !.left = r.left - 1]

\* while (msdu_chained--)
RECURSIVE OrderedChain(_)
OrderedChain(r) ==
    IF r.left = 0 THEN r
    ELSE OrderedChain(OrderedChainStep(htt_rx_netbuf_pop(r)))

\* if (last_msdu): the chain ends here
OrderedLast(r) ==
    [r EXCEPT !.nb[r.msdu].next = NULL, !.tail = r.msdu, !.stop = TRUE]

\* otherwise r has popped the first buffer of the next MSDU
OrderedNext(r) ==
    [r EXCEPT !.nb[r.msdu].next = r.got, !.msdu = r.got, !.i = @ + 1]

\* the end of the loop body, after the chained buffers
OrderedBody(r, descs) ==
    IF r.i = Len(descs) THEN OrderedLast(r) ELSE OrderedNext(htt_rx_netbuf_pop(r))

\* the MSDU_DONE bit of the attention word is set when the loop body reads
\* it or, in a build with DEBUG_DMA_DONE, after one of the at most
\* MAX_DONE_BIT_CHECK_ITER delays and syncs
OrderedDone(d) ==
    d.done = "done" \/ (cfg.debug_dma_done /\ d.done = "late")

\* the bit is still unset on buffer r.msdu, which has been set to its full
\* length, unmapped and pulled: with DEBUG_DMA_DONE and HTT_RX_RESTORE the
\* chain is ended at this buffer and returned, otherwise HTT_ASSERT_ALWAYS
OrderedUndone(r) ==
    IF cfg.debug_dma_done /\ cfg.rx_restore
    THEN [r EXCEPT !.nb[r.msdu] = [st |-> "unmapped", len |-> PayloadLen,
                                   next |-> NULL],
                   !.tail = r.msdu, !.stop = TRUE]
    ELSE [r EXCEPT !.nb[r.msdu].st = "unmapped",
                   !.nb[r.msdu].len = PayloadLen,
                   !.health = "aborted", !.stop = TRUE]

\* while (1)
RECURSIVE OrderedLoop(_, _)
OrderedLoop(r, descs) ==
    IF r.stop THEN r
    ELSE IF ~OrderedDone(descs[r.i]) THEN OrderedUndone(r)
    ELSE OrderedLoop(OrderedBody(OrderedChain(OrderedPrepare(r, descs[r.i])),
                                 descs), descs)

\* msdu = *head_msdu = htt_rx_netbuf_pop(pdev)
OrderedFirst(r) == [r EXCEPT !.head = r.got, !.msdu = r.got]

\* htt_rx_amsdu_pop_ll; .chaining is the return value
htt_rx_amsdu_pop_ll(descs) ==
    OrderedLoop(
        OrderedFirst(
            htt_rx_netbuf_pop(
                [nb |-> nbuf, rd |-> sw_rd_idx, fc |-> fill_cnt,
                 health |-> health, head |-> NULL,
                 tail |-> NULL, msdu |-> NULL, got |-> NULL, chaining |-> 0,
                 len |-> 0, left |-> 0, i |-> 1, stop |-> FALSE,
                 trims |-> <<>>, ctrims |-> <<>>])),
        descs)

\* the data path handles one rx indication in ordered mode
OrderedPop(descs) ==
    LET r == htt_rx_amsdu_pop_ll(descs)
    IN /\ CanStart /\ attached /\ ~cfg.full_reorder
       /\ nbuf' = r.nb
       /\ sw_rd_idx' = r.rd
       /\ fill_cnt' = r.fc
       /\ health' = r.health
       /\ pop' = [kind |-> "ordered", head |-> r.head, tail |-> r.tail,
                  ret |-> r.chaining, trims |-> r.trims, ctrims |-> r.ctrims,
                  msg |-> descs, count |-> pop.count,
                  taken |-> fill_cnt - r.fc, fates |-> <<>>]
       /\ UNCHANGED <<stepVars, sized, cfg, sideVars, attached, alloc_idx, fill_level,
                      netbufs_ring, refillVars, hash_table, alloc_failed>>

(***************************************************************************)
(* The chain a pop returned and its delivery.                              *)
(***************************************************************************)
\* the buffers linked from b, in order; at most NumBufs links are followed
RECURSIVE ChainFrom(_, _, _)
ChainFrom(nb, b, fuel) ==
    IF b = NULL \/ fuel = 0 THEN <<>>
    ELSE <<b>> \o ChainFrom(nb, nb[b].next, fuel - 1)

Chain == ChainFrom(nbuf, pop.head, NumBufs)

\* the receive path above hands the chain of a successful pop to the stack,
\* which frees its buffers
Deliver ==
    LET freed == IF pop.kind = "in_order" /\ pop.ret = 0
                 THEN {}
                 ELSE {Chain[i] : i \in 1 .. Len(Chain)}
    IN /\ pop.kind # "none"
       /\ nbuf' = [b \in Buffers |-> IF b \in freed THEN NbufFree ELSE nbuf[b]]
       /\ pop' = PopNone
       /\ UNCHANGED <<stepVars, sized, cfg, sideVars, attached, health, ringVars, refillVars, hash_table,
                      alloc_failed>>

(***************************************************************************)
(* The refill engine step by step: the contexts that run                   *)
(* htt_rx_ring_fill_n (two receive contexts and the retry timer), their    *)
(* positions in the code, the refill lock, the reference count, and the    *)
(* slot and index words as the target sees them.  Each action is one       *)
(* atomic operation or one loop iteration of the code.                     *)
(***************************************************************************)
\* the stand-in for RX_RING_REFILL_DEBT_MAX (128 in the program), scaled to
\* the ring of the model
RefillDebtMax == 2
\* most buffers one stepwise in-order replenish call asks for
MaxStepNum == 2
\* the target returns a buffer out of the ReorderWindow it was given first
ReorderWindow == 2
\* stepwise in-order replenish calls start only while the debt counter is
\* within StepDebtCap
StepDebtCap == 2

RxCtx == {"rx0", "rx1"}
Ctx == RxCtx \cup {"tmr"}

\* the locals of a context outside any call
CtxIdle == [pc |-> "idle", op |-> "none", req |-> 0, num |-> 0, idx |-> 0,
            filled |-> 0, debt_served |-> 0, stop |-> "none"]

\* the state of the stepwise variables after htt_rx_attach has initialised
\* the lock, the reference count and the shared index word
StepVarsInit ==
    /\ refill_lock = "free"
    /\ refill_ref_cnt = 1
    /\ ctx = [c \in Ctx |-> CtxIdle]
    /\ posted_at = [b \in Buffers |-> 0]
    /\ hw_stale = {}
    /\ post_order = <<>>

\* no accessor call, no attach in progress
DescNone == [word |-> 0, op |-> "none", result |-> 0]
AttachNone == [pc |-> "none", i |-> 0, live |-> {}, null_bucket |-> {},
               failed |-> {}, bad_free |-> FALSE, null_deref |-> FALSE,
               ret |-> 0]

\* an endpoint-ping context outside its handler
EpIdle == [pc |-> "idle", skb |-> 0, nodrop_skb |-> 0, ret |-> 0,
           failed |-> FALSE, queued |-> FALSE, dropped0 |-> 0]
EpCtx == {"tx", "tmr"}

\* the endpoint-ping adapter after epping_add_adapter: empty queue, timer
\* stopped
EppingInit ==
    /\ nodrop_queue = <<>>
    /\ epping_timer_state = "EPPING_TX_TIMER_STOPPED"
    /\ epping_timer = FALSE
    /\ tx_dropped = 0
    /\ htc_pkts = <<>>
    /\ skbs = <<>>
    /\ ep = [c \in EpCtx |-> EpIdle]

StepInit ==
    /\ StepVarsInit
    /\ msdu_desc = DescNone
    /\ rx_attach = AttachNone
    /\ EppingInit

\* the slots a context has written since its fill call began
Written(c) ==
    {(ctx[c].idx - k) % RingSize :
        k \in 1 .. (IF ctx[c].filled < RingSize THEN ctx[c].filled ELSE RingSize)}

\* positions between the first slot write of a call and its memory barrier
BeforeBarrier == {"loop", "debt_take", "mb"}

\* the buffers written into slots by calls that have not published yet
Unpublished ==
    {b \in Buffers :
        /\ nbuf[b].st = "mapped"
        /\ \E c \in Ctx : /\ ctx[c].pc \in BeforeBarrier \cup {"publish"}
                          /\ posted_at[b] \in Written(c)}

\* htt_rx_attach calls htt_rx_ring_fill_n(pdev, fill_level)
AttachStart(c) ==
    /\ health = "ok" /\ ~attached
    /\ \A o \in Ctx : ctx[o].pc = "idle"
    /\ ctx' = [ctx EXCEPT ![c] = [CtxIdle EXCEPT !.pc = "fill_entry",
                                                 !.op = "attach",
                                                 !.req = fill_level,
                                                 !.num = fill_level]]
    /\ UNCHANGED <<sized, cfg, sideVars, attached, health, ringVars, refillVars,
                   hash_table, nbuf, pop, alloc_failed, refill_lock,
                   refill_ref_cnt, posted_at, post_order, hw_stale>>

\* htt_rx_attach returns; the data path starts
AttachReturn(c) ==
    /\ ctx[c].pc = "fill_ret" /\ ctx[c].op = "attach"
    /\ attached' = TRUE
    /\ ctx' = [ctx EXCEPT ![c] = CtxIdle]
    /\ UNCHANGED <<sized, cfg, sideVars, health, ringVars, refillVars, hash_table, nbuf,
                   pop, alloc_failed, refill_lock, refill_ref_cnt, posted_at, post_order,
                   hw_stale>>

\* htt_rx_msdu_buff_in_order_replenish(pdev, num): qdf_spin_trylock_bh and,
\* when it fails, the read of refill_debt against the maximum
InOrderStart(c, num) ==
    /\ health = "ok" /\ attached /\ cfg.full_reorder
    /\ ctx[c].pc = "idle"
    /\ refill_debt <= StepDebtCap
    /\ IF refill_lock = "free"
       THEN /\ refill_lock' = c
            /\ ctx' = [ctx EXCEPT ![c] = [CtxIdle EXCEPT !.pc = "fill_entry",
                                                         !.op = "in_order",
                                                         !.req = num,
                                                         !.num = num]]
       ELSE /\ refill_lock' = refill_lock
            /\ ctx' = [ctx EXCEPT ![c] =
                    [CtxIdle EXCEPT !.pc = IF refill_debt < RefillDebtMax
                                           THEN "defer" ELSE "lock_wait",
                                    !.op = "in_order",
                                    !.req = num,
                                    !.num = num]]
    /\ UNCHANGED <<sized, cfg, sideVars, attached, health, ringVars, refillVars,
                   hash_table, nbuf, pop, alloc_failed, refill_ref_cnt,
                   posted_at, post_order, hw_stale>>

\* the return of 0 with the qdf_atomic_add(num, &refill_debt) left out
InOrderDeferLost(c) ==
    /\ ctx[c].pc = "defer"
    /\ ctx' = [ctx EXCEPT ![c] = CtxIdle]
    /\ UNCHANGED <<sized, cfg, sideVars, attached, health, ringVars, refillVars,
                   hash_table, nbuf, pop, alloc_failed, refill_lock,
                   refill_ref_cnt, posted_at, post_order, hw_stale>>

\* qdf_atomic_add(num, &refill_debt) and return filled, which is 0
InOrderDefer(c) ==
    /\ ctx[c].pc = "defer"
    /\ refill_debt' = refill_debt + ctx[c].req
    /\ ctx' = [ctx EXCEPT ![c] = CtxIdle]
    /\ UNCHANGED <<sized, cfg, sideVars, attached, health, ringVars, timer_armed,
                   hash_table, nbuf, pop, alloc_failed, refill_lock,
                   refill_ref_cnt, posted_at, post_order, hw_stale>>

\* qdf_spin_lock_bh(&refill_lock) returns once the lock is free
LockAcquire(c) ==
    /\ ctx[c].pc = "lock_wait"
    /\ refill_lock = "free"
    /\ refill_lock' = c
    /\ ctx' = [ctx EXCEPT ![c].pc = IF ctx[c].op = "retry"
                                    THEN "retry_read" ELSE "fill_entry"]
    /\ UNCHANGED <<sized, cfg, sideVars, attached, health, ringVars, refillVars,
                   hash_table, nbuf, pop, alloc_failed, refill_ref_cnt,
                   posted_at, post_order, hw_stale>>

\* the retry timer expires: htt_rx_ring_refill_retry starts
TimerFire(c) ==
    /\ health = "ok" /\ attached
    /\ c = "tmr" /\ ctx[c].pc = "idle"
    /\ timer_armed
    /\ timer_armed' = FALSE
    /\ ctx' = [ctx EXCEPT ![c] = [CtxIdle EXCEPT !.pc = "lock_wait",
                                                 !.op = "retry"]]
    /\ UNCHANGED <<sized, cfg, sideVars, attached, health, ringVars, refill_debt,
                   hash_table, nbuf, pop, alloc_failed, refill_lock,
                   refill_ref_cnt, posted_at, post_order, hw_stale>>

\* num = qdf_atomic_read(&refill_debt)
RetryRead(c) ==
    /\ ctx[c].pc = "retry_read"
    /\ ctx' = [ctx EXCEPT ![c].req = refill_debt, ![c].num = refill_debt,
                          ![c].pc = "retry_sub"]
    /\ UNCHANGED <<sized, cfg, sideVars, attached, health, ringVars, refillVars,
                   hash_table, nbuf, pop, alloc_failed, refill_lock,
                   refill_ref_cnt, posted_at, post_order, hw_stale>>

\* qdf_atomic_sub(num, &refill_debt)
RetrySub(c) ==
    /\ ctx[c].pc = "retry_sub"
    /\ refill_debt' = refill_debt - ctx[c].req
    /\ ctx' = [ctx EXCEPT ![c].pc = "fill_entry"]
    /\ UNCHANGED <<sized, cfg, sideVars, attached, health, ringVars, timer_armed,
                   hash_table, nbuf, pop, alloc_failed, refill_lock,
                   refill_ref_cnt, posted_at, post_order, hw_stale>>

\* htt_rx_msdu_buff_replenish: qdf_atomic_dec_and_test(&refill_ref_cnt)
ReplenishStart(c) ==
    /\ health = "ok" /\ attached /\ ~cfg.full_reorder
    /\ ctx[c].pc = "idle"
    /\ refill_ref_cnt' = refill_ref_cnt - 1
    /\ ctx' = [ctx EXCEPT ![c] = [CtxIdle EXCEPT !.pc = IF refill_ref_cnt = 1
                                                        THEN "count"
                                                        ELSE "ref_inc",
                                                 !.op = "replenish"]]
    /\ UNCHANGED <<sized, cfg, sideVars, attached, health, ringVars, refillVars,
                   hash_table, nbuf, pop, alloc_failed, refill_lock,
                   posted_at, post_order, hw_stale>>

\* htt_rx_fill_ring_count: num_to_fill = fill_level - fill_cnt
FillRingCount(c) ==
    /\ ctx[c].pc = "count"
    /\ ctx' = [ctx EXCEPT ![c].req = fill_level - fill_cnt,
                          ![c].num = fill_level - fill_cnt,
                          ![c].pc = "fill_entry"]
    /\ UNCHANGED <<sized, cfg, sideVars, attached, health, ringVars, refillVars,
                   hash_table, nbuf, pop, alloc_failed, refill_lock,
                   refill_ref_cnt, posted_at, post_order, hw_stale>>

\* qdf_atomic_inc(&refill_ref_cnt) at the end of htt_rx_msdu_buff_replenish
ReplenishReturn(c) ==
    /\ ctx[c].op = "replenish"
    /\ ctx[c].pc \in {"fill_ret", "ref_inc"}
    /\ refill_ref_cnt' = refill_ref_cnt + 1
    /\ ctx' = [ctx EXCEPT ![c] = CtxIdle]
    /\ UNCHANGED <<sized, cfg, sideVars, attached, health, ringVars, refillVars,
                   hash_table, nbuf, pop, alloc_failed, refill_lock,
                   posted_at, post_order, hw_stale>>

\* htt_rx_ring_fill_n: idx = *alloc_idx.vaddr and the entry guard, which
\* returns 0 without touching the index
FillEntry(c) ==
    /\ ctx[c].pc = "fill_entry"
    /\ ctx' = [ctx EXCEPT
                ![c].idx = alloc_idx,
                ![c].pc = IF alloc_idx < 0 \/ alloc_idx > SizeMask
                             \/ ctx[c].num > RingSize
                          THEN "fill_ret" ELSE "loop"]
    /\ UNCHANGED <<sized, cfg, sideVars, attached, health, ringVars, refillVars,
                   hash_table, nbuf, pop, alloc_failed, refill_lock,
                   refill_ref_cnt, posted_at, post_order, hw_stale>>

\* what one loop iteration can meet: qdf_nbuf_alloc fails (always when no
\* buffer is left), qdf_nbuf_map fails, or the qdf_mem_malloc of the hash
\* insert fails
IterOutcomes ==
    IF FreeBufs(nbuf) = {} THEN {"alloc"}
    ELSE {"none", "alloc", "map"}
         \cup (IF /\ cfg.full_reorder
                  /\ hash_table[BucketIndex(htt_paddr_trim_to_37(
                        NbufPaddr(NbufAlloc(nbuf))))].freepool = <<>>
               THEN {"insert"} ELSE {})

\* the locals after a failed qdf_nbuf_alloc with a return that skips the
\* label update_alloc_idx
StopOnAllocUnpublished(t) == [t EXCEPT !.pc = "fill_ret", !.stop = "alloc"]

\* the locals after a failed qdf_nbuf_alloc: goto update_alloc_idx
StopOnAlloc(t) == [t EXCEPT !.pc = "mb", !.stop = "alloc"]

\* one iteration of while (num > 0): allocate, map, insert into the hash
\* table or the netbuf ring, write the slot, count
FillIter(c, kind) ==
    LET t == ctx[c]
        b == NbufAlloc(nbuf)
        paddr == NbufPaddr(b)
        paddr_marked == htt_rx_paddr_mark_high_bits(cfg.marking, paddr)
        ins == htt_rx_hash_list_insert(hash_table, paddr_marked, b,
                                       kind # "insert")
    IN /\ t.pc = "loop" /\ t.num > 0
       /\ kind \in IterOutcomes
       /\ IF kind = "alloc"
          THEN \* the retry timer is restarted
               /\ timer_armed' = TRUE
               /\ alloc_failed' = TRUE
               /\ ctx' = [ctx EXCEPT ![c] = StopOnAlloc(t)]
               /\ UNCHANGED <<fill_cnt, netbufs_ring, hash_table, nbuf,
                              posted_at, post_order, hw_stale>>
          ELSE IF kind = "map" \/ (cfg.full_reorder /\ ins.rc # 0)
          THEN \* the buffer is freed (after an unmap for a failed insert),
               \* goto update_alloc_idx
               /\ ctx' = [ctx EXCEPT ![c].pc = "mb", ![c].stop = kind]
               /\ UNCHANGED <<fill_cnt, netbufs_ring, hash_table, nbuf,
                              posted_at, post_order, hw_stale, timer_armed,
                              alloc_failed>>
          ELSE /\ hash_table' = IF cfg.full_reorder THEN ins.ht ELSE hash_table
               /\ netbufs_ring' = IF cfg.full_reorder THEN netbufs_ring
                                  ELSE [netbufs_ring EXCEPT ![t.idx] = b]
               /\ posted_at' = [posted_at EXCEPT ![b] = t.idx]
               /\ post_order' = IF cfg.full_reorder THEN post_order
                                ELSE Append(post_order, b)
               /\ nbuf' = [nbuf EXCEPT ![b] = [st |-> "mapped",
                                               len |-> HTT_RX_BUF_SIZE,
                                               next |-> NULL]]
               /\ fill_cnt' = fill_cnt + 1
               /\ hw_stale' = hw_stale \cup {t.idx}
               /\ ctx' = [ctx EXCEPT ![c].num = t.num - 1,
                                     ![c].idx = (t.idx + 1) % RingSize,
                                     ![c].filled = t.filled + 1]
               /\ UNCHANGED <<timer_armed, alloc_failed>>
       /\ UNCHANGED <<sized, cfg, sideVars, attached, health, alloc_idx, sw_rd_idx,
                      fill_level, refill_debt, pop, refill_lock,
                      refill_ref_cnt>>

\* after the loop: if (debt_served < qdf_atomic_read(&refill_debt))
FillDebtCheck(c) ==
    /\ ctx[c].pc = "loop" /\ ctx[c].num <= 0
    /\ ctx' = [ctx EXCEPT ![c].pc = IF ctx[c].debt_served < refill_debt
                                    THEN "debt_take" ELSE "mb"]
    /\ UNCHANGED <<sized, cfg, sideVars, attached, health, ringVars, refillVars,
                   hash_table, nbuf, pop, alloc_failed, refill_lock,
                   refill_ref_cnt, posted_at, post_order, hw_stale>>

\* the debt pass without debt_served += num
FillDebtTakeUncounted(c) ==
    /\ ctx[c].pc = "debt_take"
    /\ ctx' = [ctx EXCEPT ![c].num = refill_debt,
                          ![c].pc = "loop"]
    /\ UNCHANGED <<sized, cfg, sideVars, attached, health, ringVars, refillVars,
                   hash_table, nbuf, pop, alloc_failed, refill_lock,
                   refill_ref_cnt, posted_at, post_order, hw_stale>>

\* num = qdf_atomic_read(&refill_debt); debt_served += num; goto moretofill
FillDebtTake(c) ==
    /\ ctx[c].pc = "debt_take"
    /\ ctx' = [ctx EXCEPT ![c].num = refill_debt,
                          ![c].debt_served = ctx[c].debt_served + refill_debt,
                          ![c].pc = "loop"]
    /\ UNCHANGED <<sized, cfg, sideVars, attached, health, ringVars, refillVars,
                   hash_table, nbuf, pop, alloc_failed, refill_lock,
                   refill_ref_cnt, posted_at, post_order, hw_stale>>

\* update_alloc_idx with the barrier left out
FillBarrierNone(c) ==
    /\ ctx[c].pc = "mb"
    /\ ctx' = [ctx EXCEPT ![c].pc = "publish"]
    /\ UNCHANGED <<sized, cfg, sideVars, attached, health, ringVars, refillVars,
                   hash_table, nbuf, pop, alloc_failed, refill_lock,
                   refill_ref_cnt, posted_at, post_order, hw_stale>>

\* update_alloc_idx: qdf_mb() makes every write before it visible to the
\* target before any write after it
FillBarrier(c) ==
    /\ ctx[c].pc = "mb"
    /\ hw_stale' = {}
    /\ ctx' = [ctx EXCEPT ![c].pc = "publish"]
    /\ UNCHANGED <<sized, cfg, sideVars, attached, health, ringVars, refillVars,
                   hash_table, nbuf, pop, alloc_failed, refill_lock,
                   refill_ref_cnt, posted_at, post_order>>

\* *(pdev->rx_ring.alloc_idx.vaddr) = idx; return filled
FillPublish(c) ==
    /\ ctx[c].pc = "publish"
    /\ alloc_idx' = ctx[c].idx
    /\ ctx' = [ctx EXCEPT ![c].pc = "fill_ret"]
    /\ UNCHANGED <<sized, cfg, sideVars, attached, health, sw_rd_idx, fill_cnt,
                   fill_level, netbufs_ring, refillVars, hash_table, nbuf,
                   pop, alloc_failed, refill_lock, refill_ref_cnt,
                   posted_at, post_order, hw_stale>>

\* InOrderReconcile that clears the debt when more was filled than asked for
InOrderReconcileClear(c) ==
    LET t == ctx[c]
    IN /\ t.pc = "fill_ret" /\ t.op = "in_order"
       /\ refill_debt' = IF t.filled > t.req
                         THEN 0
                         ELSE refill_debt + (t.req - t.filled)
       /\ ctx' = [ctx EXCEPT ![c].pc = "unlock", ![c].stop = "none"]
       /\ UNCHANGED <<sized, cfg, sideVars, attached, health, ringVars, timer_armed,
                      hash_table, nbuf, pop, alloc_failed, refill_lock,
                      refill_ref_cnt, posted_at, post_order, hw_stale>>

\* htt_rx_msdu_buff_in_order_replenish after the fill: the surplus comes off
\* the debt, the shortfall goes onto it
InOrderReconcile(c) ==
    LET t == ctx[c]
    IN /\ t.pc = "fill_ret" /\ t.op = "in_order"
       /\ refill_debt' = IF t.filled > t.req
                         THEN refill_debt - (t.filled - t.req)
                         ELSE refill_debt + (t.req - t.filled)
       /\ ctx' = [ctx EXCEPT ![c].pc = "unlock", ![c].stop = "none"]
       /\ UNCHANGED <<sized, cfg, sideVars, attached, health, ringVars, timer_armed,
                      hash_table, nbuf, pop, alloc_failed, refill_lock,
                      refill_ref_cnt, posted_at, post_order, hw_stale>>

\* htt_rx_ring_refill_retry after the fill
RetryReconcile(c) ==
    LET t == ctx[c]
    IN /\ t.pc = "fill_ret" /\ t.op = "retry"
       /\ refill_debt' = IF t.filled > t.req
                         THEN refill_debt - (t.filled - t.req)
                         ELSE IF t.req = t.filled THEN refill_debt
                         ELSE refill_debt + (t.req - t.filled)
       /\ ctx' = [ctx EXCEPT ![c].pc = "unlock", ![c].stop = "none"]
       /\ UNCHANGED <<sized, cfg, sideVars, attached, health, ringVars, timer_armed,
                      hash_table, nbuf, pop, alloc_failed, refill_lock,
                      refill_ref_cnt, posted_at, post_order, hw_stale>>

\* qdf_spin_unlock_bh(&refill_lock) and the return of the caller
Unlock(c) ==
    /\ ctx[c].pc = "unlock"
    /\ refill_lock' = "free"
    /\ ctx' = [ctx EXCEPT ![c] = CtxIdle]
    /\ UNCHANGED <<sized, cfg, sideVars, attached, health, ringVars, refillVars,
                   hash_table, nbuf, pop, alloc_failed, refill_ref_cnt,
                   posted_at, post_order, hw_stale>>

\* a slot write of the host reaches the memory the target reads
HwSeeSlot(s) ==
    /\ s \in hw_stale
    /\ hw_stale' = hw_stale \ {s}
    /\ UNCHANGED <<sized, cfg, sideVars, attached, health, ringVars, refillVars,
                   hash_table, nbuf, pop, alloc_failed, refill_lock,
                   refill_ref_cnt, ctx, posted_at, post_order>>

\* the buffers the target has been given and not returned, and the one of
\* them it was given first: the target uses the slots in ring order
Given == Posted \ Unpublished

\* the w buffers the target was given first
Oldest(w) ==
    {b \in Given :
        Cardinality({o \in Given : (posted_at[o] - alloc_idx) % RingSize
                                     < (posted_at[b] - alloc_idx) % RingSize}) < w}

\* an in-order indication that returns buffers out of the w given first
EarlyMsg(msg, w) == \A i \in 1 .. Len(msg) : msg[i].buf \in Oldest(w)

\* the receive path handles one in-order indication, which names buffers
\* the target has been given, and the stack frees the chain
RxInOrder(c, msg) ==
    LET r == htt_rx_amsdu_rx_in_order_pop_ll(msg)
        chain == ChainFrom(r.nb, r.head, NumBufs)
        freed == IF r.ret = 0 THEN {} ELSE {chain[i] : i \in 1 .. Len(chain)}
    IN /\ \A o \in Ctx : ctx[o].pc = "idle"
       /\ \A i \in 1 .. Len(msg) : msg[i].buf \in Given
       /\ hash_table' = r.ht
       /\ fill_cnt' = r.fc
       /\ health' = r.health
       /\ nbuf' = [b \in Buffers |-> IF b \in freed THEN NbufFree ELSE r.nb[b]]
       /\ posted_at' = [b \in Buffers |-> IF b \in freed THEN 0 ELSE posted_at[b]]
       /\ post_order' = post_order
       /\ UNCHANGED <<sized, cfg, sideVars, attached, alloc_idx, sw_rd_idx, fill_level,
                      netbufs_ring, refillVars, pop, alloc_failed, refill_lock,
                      refill_ref_cnt, ctx, hw_stale>>

\* the receive path handles one rx indication in ordered mode and the stack
\* frees the chain
RxOrdered(c, descs) ==
    LET r == htt_rx_amsdu_pop_ll(descs)
        chain == ChainFrom(r.nb, r.head, NumBufs)
        freed == {chain[i] : i \in 1 .. Len(chain)}
    IN /\ \A o \in Ctx : ctx[o].pc = "idle"
       /\ sw_rd_idx' = r.rd
       /\ fill_cnt' = r.fc
       /\ health' = r.health
       /\ nbuf' = [b \in Buffers |-> IF b \in freed THEN NbufFree ELSE r.nb[b]]
       /\ posted_at' = [b \in Buffers |-> IF b \in freed THEN 0 ELSE posted_at[b]]
       /\ post_order' = SubSeq(post_order, ((r.rd - sw_rd_idx) % RingSize) + 1,
                               Len(post_order))
       /\ UNCHANGED <<sized, cfg, sideVars, attached, alloc_idx, fill_level,
                      netbufs_ring, refillVars, hash_table, pop, alloc_failed,
                      refill_lock, refill_ref_cnt, ctx, hw_stale>>

\* pdev->rx_ring.hash_table after htt_rx_hash_deinit: no entry is left
HashDetached == [i \in Buckets |-> [listhead |-> <<>>, freepool |-> <<>>]]

\* the buffers htt_rx_hash_deinit releases: those of the active entries
HashDeinitBufs ==
    UNION {{hash_table[i].listhead[k].netbuf :
               k \in 1 .. Len(hash_table[i].listhead)} : i \in Buckets}

\* the buffers the loop of htt_rx_detach releases: those of the slots from
\* sw_rd_idx up to the write index
RingDetachBufs ==
    {netbufs_ring[(sw_rd_idx + k) % RingSize] :
        k \in 0 .. ((alloc_idx - sw_rd_idx) % RingSize) - 1}

\* htt_rx_detach: the timer is stopped, then the buffers of the hash table
\* (htt_rx_hash_deinit) or of the ring are unmapped and freed
htt_rx_detach ==
    LET freed == IF cfg.full_reorder THEN HashDeinitBufs ELSE RingDetachBufs
    IN /\ health = "ok" /\ attached
       /\ \A o \in Ctx : ctx[o].pc = "idle"
       /\ timer_armed' = FALSE
       /\ nbuf' = [b \in Buffers |-> IF b \in freed THEN NbufFree ELSE nbuf[b]]
       /\ hash_table' = IF cfg.full_reorder THEN HashDetached ELSE hash_table
       /\ health' = "detached"
       /\ UNCHANGED <<sized, cfg, sideVars, attached, ringVars, refill_debt, pop,
                      alloc_failed, stepVars>>

\* the steps of htt_rx_ring_fill_n in context c
FillSteps(c) ==
    \/ FillEntry(c)
    \/ \E kind \in IterOutcomes : FillIter(c, kind)
    \/ FillDebtCheck(c)
    \/ FillDebtTake(c)
    \/ FillBarrier(c)
    \/ FillPublish(c)

\* the steps of htt_rx_ring_refill_retry around its fill
RetrySteps(c) ==
    \/ RetryRead(c)
    \/ RetrySub(c)
    \/ RetryReconcile(c)

\* no context other than c is inside a call
Quiet(c) == \A o \in Ctx \ {c} : ctx[o].pc = "idle"

(***************************************************************************)
(* The refill engine in address-ordered (full reorder offload) mode with   *)
(* two receive contexts that call htt_rx_msdu_buff_in_order_replenish      *)
(* concurrently, each call for MaxStepNum buffers.  Indications are        *)
(* handled while no refill call is under way, the target returns the       *)
(* buffers in the order it was given them, and the retry timer does not    *)
(* expire.                                                                 *)
(***************************************************************************)
InitRefill ==
    /\ cfg = [full_reorder |-> TRUE, marking |-> FALSE, self_recovery |-> TRUE,
        debug_dma_done |-> FALSE, rx_restore |-> FALSE]
    /\ attached = FALSE
    /\ health = "ok"
    /\ alloc_idx = 0
    /\ sw_rd_idx = 0
    /\ fill_cnt = 0
    /\ fill_level = RingSize - 1
    /\ netbufs_ring = [i \in Slots |-> NULL]
    /\ refill_debt = 0
    /\ timer_armed = FALSE
    /\ hash_table = htt_rx_hash_init
    /\ nbuf = [b \in Buffers |-> NbufFree]
    /\ pop = PopNone
    /\ alloc_failed = FALSE
    /\ sized = SizedNone
    /\ StepInit

NextRefill ==
    \/ AttachStart("rx0")
    \/ AttachReturn("rx0")
    \/ \E c \in RxCtx :
        \/ FillSteps(c)
        \/ LockAcquire(c)
        \/ Unlock(c)
        \/ InOrderStart(c, MaxStepNum)
        \/ InOrderDefer(c)
        \/ InOrderReconcile(c)
        \/ \E msg \in InOrdMsgs(SpecMsdu, InOrdPlain) :
              EarlyMsg(msg, 1) /\ RxInOrder(c, msg)

SpecRefill == InitRefill /\ [][NextRefill]_vars

(***************************************************************************)
(* One refill call at a time, step by step, in both ring modes, with the   *)
(* slot writes reaching the target late: a receive context that attaches,  *)
(* replenishes and handles indications, and the retry timer.               *)
(***************************************************************************)
InitFill ==
    /\ cfg \in {c \in Configs : ~c.marking}
    /\ attached = FALSE
    /\ health = "ok"
    /\ alloc_idx = 0
    /\ sw_rd_idx = 0
    /\ fill_cnt = 0
    /\ fill_level = RingSize - 1
    /\ netbufs_ring = [i \in Slots |-> NULL]
    /\ refill_debt = 0
    /\ timer_armed = FALSE
    /\ hash_table = htt_rx_hash_init
    /\ nbuf = [b \in Buffers |-> NbufFree]
    /\ pop = PopNone
    /\ alloc_failed = FALSE
    /\ sized = SizedNone
    /\ StepInit

NextFill ==
    \/ AttachStart("rx0")
    \/ AttachReturn("rx0")
    \/ \E c \in {"rx0", "tmr"} :
        \/ FillSteps(c)
        \/ Unlock(c)
    \/ Quiet("tmr") /\ TimerFire("tmr")
    \/ LockAcquire("tmr")
    \/ RetrySteps("tmr")
    \/ \E num \in 1 .. MaxStepNum : Quiet("rx0") /\ InOrderStart("rx0", num)
    \/ InOrderReconcile("rx0")
    \/ Quiet("rx0") /\ ReplenishStart("rx0")
    \/ FillRingCount("rx0")
    \/ ReplenishReturn("rx0")
    \/ \E msg \in InOrdMsgs(SpecMsdu, InOrdPlain) :
          EarlyMsg(msg, ReorderWindow) /\ RxInOrder("rx0", msg)
    \/ \E descs \in OrderedDescs(SpecMsdu, {100}, 1, {FALSE}) :
          RxOrdered("rx0", descs)
    \/ \E s \in Slots : HwSeeSlot(s)
    \/ htt_rx_detach

SpecFill == InitFill /\ [][NextFill]_vars

(***************************************************************************)
(* The debt counter under fair scheduling: the contexts of SpecRefill with *)
(* qdf_nbuf_map and the hash insert always succeeding and qdf_nbuf_alloc   *)
(* failing only when no buffer is left.  A context inside a call, and a    *)
(* context that waits for the lock while it is free, takes its next step;  *)
(* whether another indication or replenish call arrives is up to the       *)
(* target.                                                                 *)
(***************************************************************************)
\* one loop iteration that fails only for want of a buffer
DebtIter(c) == FillIter(c, IF FreeBufs(nbuf) = {} THEN "alloc" ELSE "none")

\* the steps of a context between the entry and the return of a call to
\* htt_rx_msdu_buff_in_order_replenish or htt_rx_attach
CallSteps(c) ==
    \/ FillEntry(c)
    \/ DebtIter(c)
    \/ FillDebtCheck(c)
    \/ FillDebtTake(c)
    \/ FillBarrier(c)
    \/ FillPublish(c)
    \/ LockAcquire(c)
    \/ InOrderDefer(c)
    \/ InOrderReconcile(c)
    \/ Unlock(c)
    \/ AttachReturn(c)

NextDebt ==
    \/ AttachStart("rx0")
    \/ \E c \in RxCtx :
        \/ CallSteps(c)
        \/ InOrderStart(c, MaxStepNum)
        \/ \E msg \in InOrdMsgs(SpecMsdu, InOrdPlain) :
              EarlyMsg(msg, 1) /\ RxInOrder(c, msg)

SpecDebt ==
    /\ InitRefill
    /\ [][NextDebt]_vars
    /\ \A c \in RxCtx : WF_vars(CallSteps(c))

(***************************************************************************)
(* The initial state and the next-state relation.                          *)
(***************************************************************************)

Init ==
    /\ cfg \in Configs
    /\ attached = FALSE
    /\ health = "ok"
    /\ alloc_idx = 0
    /\ sw_rd_idx = 0
    /\ fill_cnt = 0
    /\ fill_level \in {RingSize \div 2, RingSize - 1}
    /\ netbufs_ring = [i \in Slots |-> NULL]
    /\ refill_debt = 0
    /\ timer_armed = FALSE
    /\ hash_table = htt_rx_hash_init
    /\ nbuf = [b \in Buffers |-> NbufFree]
    /\ pop = PopNone
    /\ alloc_failed = FALSE
    /\ sized = SizedNone
    /\ StepInit

Next ==
    \/ \E fail \in FailPlans(Attempts(fill_level)) : Attach(fail)
    \/ \E fail \in FailPlans(Attempts(fill_level - fill_cnt)) : Replenish(fail)
    \/ \E num \in 0 .. MaxNum :
          \E fail \in FailPlans(Attempts(num)) : InOrderReplenish(num, fail)
    \/ \E fail \in FailPlans(Attempts(0)) : Retry(fail)
    \/ \E msg \in InOrdMsgs(SpecMsdu, InOrdPlain) : InOrderPop(msg)
    \/ \E descs \in OrderedDescs(SpecMsdu, {100}, 1, {FALSE}) : OrderedPop(descs)
    \/ Deliver

Spec == Init /\ [][Next]_vars

(***************************************************************************)
(* Reassembly on its own: the ring as htt_rx_attach leaves it when every   *)
(* allocation succeeds, then indications of every shape until the ring is  *)
(* empty.                                                                  *)
(***************************************************************************)
InitReasm ==
    /\ cfg \in Configs
    /\ attached = TRUE
    /\ health = "ok"
    /\ sw_rd_idx = 0
    /\ fill_level = RingSize - 1
    /\ refill_debt = 0
    /\ pop = PopNone
    /\ sized = SizedNone
    /\ StepInit
    /\ LET f == FillLoop([idx |-> 0, num |-> RingSize - 1, filled |-> 0,
                          debt_served |-> 0, fc |-> 0,
                          ring |-> [i \in Slots |-> NULL],
                          ht |-> htt_rx_hash_init,
                          nb |-> [b \in Buffers |-> NbufFree],
                          timer |-> FALSE, afail |-> FALSE], 0, NoFail)
       IN /\ alloc_idx = f.idx
          /\ fill_cnt = f.fc
          /\ netbufs_ring = f.ring
          /\ hash_table = f.ht
          /\ nbuf = f.nb
          /\ timer_armed = f.timer
          /\ alloc_failed = f.afail

NextReasm ==
    \/ \E msg \in InOrdMsgs(MaxMsdu, InOrdKinds) : InOrderPop(msg)
    \/ \E descs \in OrderedDescs(MaxMsdu, DescLens, MaxChain, BOOLEAN) :
          OrderedPop(descs)
    \/ Deliver

SpecReasm == InitReasm /\ [][NextReasm]_vars

(***************************************************************************)
(* The hash table on its own: inserts of buffers under their address with  *)
(* any marking of the high bits, lookups under the address proper, in any  *)
(* order.  Here pop holds the last call and, as history, the inserts that  *)
(* no lookup has matched yet.                                              *)
(***************************************************************************)
\* tag patterns on bits 37..63
HashTags == {0, MagicShifted.hi, Pow2(HiBits) - 1}

\* the addresses buffer b can be inserted under
HashAddrs(b) ==
    {[NbufPaddr(b) EXCEPT !.hi = t] : t \in HashTags}
    \cup {htt_rx_paddr_mark_high_bits(m, NbufPaddr(b)) : m \in BOOLEAN}

\* bits 0..36 of an address: the physical address proper
Stripped(paddr) == Paddr(0, paddr.mid, paddr.lo)

HashNone == [kind |-> "none", netbuf |-> NULL, rc |-> 0, malloc_ok |-> TRUE,
             arg |-> [buf |-> NULL, paddr |-> PADDR_ZERO], live |-> <<>>]

\* the outcomes qdf_mem_malloc can have in an insert of paddr: it is called
\* only when the free pool of the bucket is empty
MallocOutcomes(paddr) ==
    IF hash_table[BucketIndex(Stripped(paddr))].freepool = <<>>
    THEN BOOLEAN ELSE {TRUE}

\* htt_rx_hash_list_insert(pdev, paddr, b) for a buffer not in the table
HashInsert(b, paddr, malloc_ok) ==
    LET ins == htt_rx_hash_list_insert(hash_table, paddr, b, malloc_ok)
        rec == [buf |-> b, paddr |-> paddr]
    IN /\ health = "ok"
       /\ nbuf[b].st = "free"
       /\ hash_table' = ins.ht
       /\ nbuf' = IF ins.rc = 0 THEN [nbuf EXCEPT ![b].st = "mapped"] ELSE nbuf
       /\ pop' = [kind |-> "insert", netbuf |-> NULL, rc |-> ins.rc,
                  malloc_ok |-> malloc_ok, arg |-> rec,
                  live |-> IF ins.rc = 0 THEN Append(pop.live, rec) ELSE pop.live]
       /\ UNCHANGED <<stepVars, sized, cfg, sideVars, attached, health, ringVars, refillVars,
                      alloc_failed>>

\* htt_rx_hash_list_lookup(pdev, paddr) under the stripped address of the
\* k-th insert still unmatched
HashLookup(k) ==
    LET rec == pop.live[k]
        lk == htt_rx_hash_list_lookup(hash_table, Stripped(rec.paddr))
    IN /\ health = "ok"
       /\ hash_table' = lk.ht
       /\ nbuf' = [nbuf EXCEPT ![rec.buf] = NbufFree]
       /\ pop' = [kind |-> "lookup", netbuf |-> lk.netbuf, rc |-> 0,
                  malloc_ok |-> TRUE, arg |-> rec,
                  live |-> [j \in 1 .. Len(pop.live) - 1 |->
                              IF j < k THEN pop.live[j] ELSE pop.live[j + 1]]]
       /\ health' = IF lk.netbuf = NULL THEN MissOutcome ELSE health
       /\ UNCHANGED <<stepVars, sized, cfg, sideVars, attached, ringVars, refillVars, alloc_failed>>

\* htt_rx_hash_list_lookup(pdev, paddr) under the address of a buffer that is
\* not in the table: the target names a buffer the host never posted or has
\* popped already
HashLookupAbsent(b) ==
    LET rec == [buf |-> b, paddr |-> Stripped(NbufPaddr(b))]
        lk == htt_rx_hash_list_lookup(hash_table, rec.paddr)
    IN /\ health = "ok"
       /\ nbuf[b].st = "free"
       /\ hash_table' = lk.ht
       /\ pop' = [pop EXCEPT !.kind = "lookup_absent", !.netbuf = lk.netbuf,
                             !.rc = 0, !.malloc_ok = TRUE, !.arg = rec]
       /\ health' = IF lk.netbuf = NULL THEN MissOutcome ELSE health
       /\ UNCHANGED <<stepVars, sized, cfg, sideVars, attached, ringVars, refillVars, nbuf,
                      alloc_failed>>

InitHash ==
    /\ cfg \in {[c EXCEPT !.self_recovery = s] :
                   c \in {x \in Configs : x.full_reorder}, s \in BOOLEAN}
    /\ attached = TRUE
    /\ health = "ok"
    /\ alloc_idx = 0
    /\ sw_rd_idx = 0
    /\ fill_cnt = 0
    /\ fill_level = RingSize - 1
    /\ netbufs_ring = [i \in Slots |-> NULL]
    /\ refill_debt = 0
    /\ timer_armed = FALSE
    /\ hash_table = htt_rx_hash_init
    /\ nbuf = [b \in Buffers |-> NbufFree]
    /\ pop = HashNone
    /\ alloc_failed = FALSE
    /\ sized = SizedNone
    /\ StepInit

NextHash ==
    \/ \E b \in Buffers : \E paddr \in HashAddrs(b) :
          \E malloc_ok \in MallocOutcomes(paddr) : HashInsert(b, paddr, malloc_ok)
    \/ \E k \in 1 .. Len(pop.live) : HashLookup(k)
    \/ \E b \in Buffers : HashLookupAbsent(b)

SpecHash == InitHash /\ [][NextHash]_vars

(***************************************************************************)
(* The sizing functions on their own: one call on a configured throughput  *)
(* and, for the fill level, a ring size.                                   *)
(***************************************************************************)
\* htt_rx_ring_size(pdev)
RingSizeCall ==
    /\ sized.op = "none"
    /\ \E prod \in ThruputTimes1000(sized.thr) :
          sized' = [sized EXCEPT !.op = "ring_size", !.prod = prod,
                                 !.result = htt_rx_ring_size(prod)]
    /\ UNCHANGED <<stepVars, cfg, sideVars, attached, health, ringVars, refillVars, hash_table,
                   nbuf, pop, alloc_failed>>

\* htt_rx_ring_fill_level(pdev) with pdev->rx_ring.size = sized.size, for a
\* throughput that is not negative
FillLevelCall ==
    /\ sized.op = "none"
    /\ \E prod \in ThruputTimes1000(sized.thr) :
          /\ prod >= 0
          /\ sized' = [sized EXCEPT
                          !.op = "fill_level", !.prod = prod,
                          !.result = htt_rx_ring_fill_level(prod, sized.wifi3,
                                                            sized.size)]
    /\ UNCHANGED <<stepVars, cfg, sideVars, attached, health, ringVars, refillVars, hash_table,
                   nbuf, pop, alloc_failed>>

\* htt_rx_attach: rx_ring.size = htt_rx_ring_size(pdev), then
\* rx_ring.fill_level = htt_rx_ring_fill_level(pdev)
SizingAttach ==
    /\ sized.op = "none"
    /\ \E prod \in ThruputTimes1000(sized.thr) :
          /\ prod >= 0
          /\ sized' = [sized EXCEPT
                          !.op = "attach", !.prod = prod,
                          !.size = htt_rx_ring_size(prod),
                          !.result = htt_rx_ring_fill_level(
                                        prod, sized.wifi3,
                                        htt_rx_ring_size(prod))]
    /\ UNCHANGED <<stepVars, cfg, sideVars, attached, health, ringVars, refillVars, hash_table,
                   nbuf, pop, alloc_failed>>

InitSizing ==
    /\ cfg \in {c \in Configs : ~c.full_reorder}
    /\ attached = FALSE
    /\ health = "ok"
    /\ alloc_idx = 0
    /\ sw_rd_idx = 0
    /\ fill_cnt = 0
    /\ fill_level = RingSize - 1
    /\ netbufs_ring = [i \in Slots |-> NULL]
    /\ refill_debt = 0
    /\ timer_armed = FALSE
    /\ hash_table = htt_rx_hash_init
    /\ nbuf = [b \in Buffers |-> NbufFree]
    /\ pop = PopNone
    /\ alloc_failed = FALSE
    /\ sized \in {[SizedNone EXCEPT !.thr = t, !.wifi3 = w, !.size = s] :
                     t \in Thruputs, w \in BOOLEAN, s \in RingSizes}
    /\ StepInit

NextSizing == RingSizeCall \/ FillLevelCall \/ SizingAttach

SpecSizing == InitSizing /\ [][NextSizing]_vars

(***************************************************************************)
(* Properties of reassembly.                                               *)
(***************************************************************************)
\* the message of the last pop, its length, and the records that are dropped
Msg == pop.msg
MsgLen == Len(pop.msg)
Erroring(i) == Msg[i].err /\ ~Msg[i].discard
ErrIdx == {i \in 1 .. MsgLen : Erroring(i)}

WithoutErr(e) ==
    [i \in 1 .. MsgLen - 1 |-> IF i < e THEN Msg[i] ELSE Msg[i + 1]]

\* C5: an in-order indication of N > 1 MSDUs of which exactly one, at any
\* position, has an error flag set with the discard flag clear yields a chain
\* of exactly N - 1 buffers: the others in message order, the erroring buffer
\* left out (and freed), the last next link NULL.
C5_InOrderChainSplicesError ==
    (/\ pop.kind = "in_order"
     /\ MsgLen > 1
     /\ Cardinality(ErrIdx) = 1)
    => \A e \in ErrIdx :
         /\ Len(Chain) = MsgLen - 1
         /\ \A i \in 1 .. MsgLen - 1 :
              /\ PostedPaddr(Chain[i]) = WithoutErr(e)[i].paddr
              /\ Chain[i] # Msg[e].buf
         /\ nbuf[Msg[e].buf].st = "free"
         /\ pop.head = Chain[1]
         /\ pop.tail = Chain[MsgLen - 1]
         /\ nbuf[pop.tail].next = NULL
         /\ pop.ret = 1

\* a pop of three MSDUs whose middle one is erroring
C5_Witness ==
    /\ pop.kind = "in_order"
    /\ MsgLen = MaxMsdu
    /\ ErrIdx = {2}
    /\ Len(Chain) = MaxMsdu - 1

\* C6: for every chained MSDU of htt_rx_amsdu_pop_ll, whatever length its
\* descriptor declares and however many continuation buffers it has, the
\* amount by which the final buffer is trimmed lies within
\* 0 .. HTT_RX_BUF_SIZE - RX_STD_DESC_SIZE.
C6_ChainedTrimClamped ==
    pop.kind = "ordered" =>
        \A i \in 1 .. Len(pop.ctrims) :
            /\ pop.ctrims[i] >= 0
            /\ pop.ctrims[i] <= HTT_RX_BUF_SIZE - RX_STD_DESC_SIZE

\* a pop with a chained MSDU whose declared length is shorter than its
\* continuation buffers: the residual length is negative when the final
\* buffer is trimmed
C6_Witness ==
    /\ pop.kind = "ordered"
    /\ pop.ret = 1
    /\ Len(pop.ctrims) > 0
    /\ \E i \in 1 .. MsgLen :
          /\ Msg[i].chained = MaxChain
          /\ Msg[i].len - Msg[i].chained * HTT_RX_BUF_SIZE < 0

(***************************************************************************)
(* Properties of the ring and the refill engine.                           *)
(***************************************************************************)
\* C1: as long as no allocation has failed, whatever fill calls the entry
\* guard has accepted (debt passes included), fill_cnt is at most size - 1.
C1_FillCountBelowSize == ~alloc_failed => fill_cnt <= RingSize - 1

\* the entries on the active lists, as pairs of address and buffer
ActiveEntries ==
    UNION {{<<hash_table[i].listhead[k].paddr, hash_table[i].listhead[k].netbuf>> :
            k \in 1 .. Len(hash_table[i].listhead)} : i \in Buckets}

\* C2: in full reorder offload mode, after any interleaving of fills and
\* pops, the addresses on the active lists are those of the buffers posted
\* and not yet popped (as physical addresses, bits 0..36), no address is
\* listed twice, and a lookup under the posted address as the pop strips it
\* yields the buffer posted under it.
C2_ActiveListsArePosted ==
    cfg.full_reorder =>
        /\ ActiveEntries = {<<Stripped(PostedPaddr(b)), b>> : b \in Posted}
        /\ \A i \in Buckets :
             \A j, k \in 1 .. Len(hash_table[i].listhead) :
                hash_table[i].listhead[j].paddr = hash_table[i].listhead[k].paddr
                    => j = k
        /\ \A b \in Posted :
             htt_rx_hash_list_lookup(
                 hash_table, htt_paddr_trim_to_37(PostedPaddr(b))).netbuf = b

\* a bucket that holds three posted buffers, one in an entry from the heap,
\* refilled after a pop so that the list is not in allocation order
C2_Witness ==
    /\ cfg.full_reorder
    /\ cfg.marking
    /\ pop.kind = "none"
    /\ \E i \in Buckets :
          /\ Len(hash_table[i].listhead) = 3
          /\ hash_table[i].listhead[1].netbuf > hash_table[i].listhead[2].netbuf
          /\ hash_table[i].listhead[3].fromlist = 0

\* C7: every fill call leaves the published alloc_idx at (alloc_idx before
\* the call + number of buffers the call has posted) mod size, also when it
\* stops early on a failure.  The steps that leave pop alone are the fill
\* calls.
C7_PublishedIndex ==
    [][pop' = pop =>
        alloc_idx' =
            (alloc_idx
             + Cardinality({b \in Buffers : /\ nbuf'[b].st = "mapped"
                                            /\ nbuf[b].st # "mapped"}))
            % RingSize]_vars

\* after a fill that stopped early on an allocation failure, the published
\* index has wrapped around below the read index
C7_Witness ==
    /\ attached
    /\ ~cfg.full_reorder
    /\ pop.kind = "none"
    /\ alloc_failed /\ timer_armed
    /\ fill_cnt > 0
    /\ alloc_idx < sw_rd_idx
    /\ fill_cnt = (alloc_idx - sw_rd_idx) % RingSize

(***************************************************************************)
(* Properties of the hash table.                                           *)
(***************************************************************************)
\* C3: for inserts under pairwise distinct physical addresses followed by
\* lookups on those addresses in any order, each lookup returns the buffer
\* inserted under its address, and once every insert is matched by a lookup
\* every active list is empty (and every free pool is whole again).
C3_LookupReturnsInserted ==
    /\ pop.kind = "lookup" => pop.netbuf = pop.arg.buf
    /\ (pop.kind = "lookup" /\ pop.live = <<>>) =>
            \A i \in Buckets :
                /\ hash_table[i].listhead = <<>>
                /\ Len(hash_table[i].freepool) = EntriesSize

\* a lookup of the buffer inserted last into a bucket that still holds two
\* buffers inserted before it
C3_Witness ==
    /\ pop.kind = "lookup"
    /\ pop.netbuf = 4
    /\ Len(pop.live) >= 2
    /\ Len(hash_table[BucketIndex(Stripped(pop.arg.paddr))].listhead) = 2

\* addresses over the three limbs, next to those of the buffers
SampleAddrs ==
    {Paddr(0, m, l) : m \in {0, 1, Pow2(MidBits) - 1},
                      l \in {0, 16, 16384, 16400, Pow2(LoBits) - 1}}

\* RX_HASH_FUNCTION of an address with a tag on its high bits, or marked by
\* htt_rx_paddr_mark_high_bits, is that of the address
TagsKeepBucket ==
    \A a \in SampleAddrs \cup {NbufPaddr(b) : b \in Buffers} :
        \A t \in HashTags :
            /\ RX_HASH_FUNCTION([a EXCEPT !.hi = t]) = RX_HASH_FUNCTION(a)
            /\ RX_HASH_FUNCTION(htt_rx_paddr_mark_high_bits(TRUE, a))
                  = RX_HASH_FUNCTION(a)

\* C8: the bucket does not depend on a marking of the stripped-off high bits
\* (bits 37..63): RX_HASH_FUNCTION gives the marked and the unmarked address
\* the same bucket, every buffer inserted sits in the bucket of its unmarked
\* address, and a buffer inserted under a marked address is returned by the
\* lookup under the stripped address.
C8_BucketIgnoresMarking ==
    /\ TagsKeepBucket
    /\ (pop.kind \in {"insert", "lookup"}) =>
         \A k \in 1 .. Len(pop.live) :
            \E j \in 1 .. Len(hash_table[RX_HASH_FUNCTION(
                                  Stripped(pop.live[k].paddr))].listhead) :
                hash_table[RX_HASH_FUNCTION(
                    Stripped(pop.live[k].paddr))].listhead[j].netbuf
                  = pop.live[k].buf
    /\ (pop.kind = "lookup" /\ pop.arg.paddr.hi # 0) => pop.netbuf = pop.arg.buf

\* a lookup of the buffer above 4 GB that was inserted under the address
\* marked with RX_PADDR_MAGIC_PATTERN
C8_Witness ==
    /\ pop.kind = "lookup"
    /\ pop.arg.buf = 3
    /\ pop.arg.paddr = htt_rx_paddr_mark_high_bits(TRUE, NbufPaddr(3))
    /\ pop.arg.paddr # NbufPaddr(3)
    /\ pop.netbuf = 3

\* C16: a lookup under an address that matches no entry returns no buffer
\* and leaves every list as it was; it triggers recovery when self recovery
\* is enabled and aborts otherwise, so the driver does not carry on as after
\* a per-packet miss.
C16_LookupMissIsFatal ==
    [][(pop'.kind = "lookup_absent" /\ pop' # pop) =>
            /\ pop'.netbuf = NULL
            /\ hash_table' = hash_table
            /\ health = "ok"
            /\ health' = IF cfg.self_recovery THEN "recovering" ELSE "aborted"]_vars

\* a miss in a build without self recovery while the table holds buffers
C16_Witness ==
    /\ pop.kind = "lookup_absent"
    /\ ~cfg.self_recovery
    /\ health = "aborted"
    /\ Len(pop.live) >= 2

\* C17: an insert fails exactly when the free pool of the bucket is empty and
\* the overflow allocation fails, and a failed insert leaves the table (and
\* the buffer) as they were.
C17_InsertFailsOnlyOnExhaustion ==
    [][(pop'.kind = "insert" /\ pop' # pop) =>
            LET i == BucketIndex(Stripped(pop'.arg.paddr))
            IN /\ (pop'.rc # 0) <=>
                        (hash_table[i].freepool = <<>> /\ ~pop'.malloc_ok)
               /\ pop'.rc # 0 => hash_table' = hash_table /\ nbuf' = nbuf]_vars

\* a failed insert into a bucket whose pool is used up
C17_Witness ==
    /\ pop.kind = "insert"
    /\ pop.rc # 0
    /\ ~pop.malloc_ok
    /\ \E i \in Buckets : Len(hash_table[i].listhead) >= EntriesSize

(***************************************************************************)
(* Properties of the sizing functions.                                     *)
(***************************************************************************)
\* C9 as stated: for ring size 128 and a max throughput of 1000 Mbps the
\* fill level is a power of two, at least 128 when the raw value is below
\* that, and at most size - 1.
C9_FillLevelPowerOfTwo ==
    (sized.op = "fill_level" /\ sized.thr = 1000 /\ sized.size = 128) =>
        /\ IsPwr2(sized.result)
        /\ FillLevelRaw(sized.prod, sized.wifi3) < HTT_RX_RING_SIZE_MIN
              => sized.result >= HTT_RX_RING_SIZE_MIN
        /\ sized.result <= sized.size - 1

\* C9, amended: for ring size 128 and 1000 Mbps the raw value is 2500 with
\* the 20 ms latency factor of a QCA_WIFI_3_0 build and 1250 with the 10 ms
\* of the others; rounded up to a power of two it is clamped to
\* size - 1 = 127, which is no power of two.  For every throughput and ring
\* size the fill level is at most size - 1, and it is either size - 1 or the
\* raw value rounded up to a power of two; nothing raises it to 128.
C9_FillLevelClamped ==
    /\ (sized.op = "fill_level" /\ sized.thr = 1000 /\ sized.size = 128) =>
          /\ FillLevelRaw(sized.prod, sized.wifi3)
                = (IF sized.wifi3 THEN 2500 ELSE 1250)
          /\ sized.result = 127
    /\ sized.op \in {"fill_level", "attach"} =>
          /\ sized.result <= sized.size - 1
          /\ \/ sized.result = sized.size - 1
             \/ FillLevelRaw(sized.prod, sized.wifi3) = 0 /\ sized.result = 0
             \/ /\ IsPwr2(sized.result)
                /\ FillLevelRaw(sized.prod, sized.wifi3) <= sized.result
                /\ sized.result < 2 * FillLevelRaw(sized.prod, sized.wifi3)

\* the fill level computed for ring size 128 and 1000 Mbps
C9_Witness ==
    /\ sized.op = "fill_level"
    /\ sized.thr = 1000
    /\ sized.wifi3
    /\ sized.size = 128
    /\ sized.result = sized.size - 1

\* C10: for every configured max throughput htt_rx_ring_size returns a power
\* of two within HTT_RX_RING_SIZE_MIN .. HTT_RX_RING_SIZE_MAX.
C10_RingSizeRange ==
    /\ sized.op = "ring_size" =>
          /\ IsPwr2(sized.result)
          /\ sized.result >= HTT_RX_RING_SIZE_MIN
          /\ sized.result <= HTT_RX_RING_SIZE_MAX
    /\ sized.op = "attach" =>
          /\ IsPwr2(sized.size)
          /\ sized.size >= HTT_RX_RING_SIZE_MIN
          /\ sized.size <= HTT_RX_RING_SIZE_MAX

\* a throughput whose raw ring size, 240, lies within the range and is
\* rounded up to 256
C10_Witness ==
    /\ sized.op = "ring_size"
    /\ sized.thr = 100
    /\ sized.result = 256

(***************************************************************************)
(* Properties of the refill engine step by step.                           *)
(***************************************************************************)

C12_NoWriteToPostedSlot ==
    [][\A b \in Buffers :
        (nbuf[b].st # "mapped" /\ nbuf'[b].st = "mapped") =>
            \A o \in Buffers \ {b} :
                nbuf[o].st = "mapped" => posted_at[o] # posted_at'[b]]_vars

\* C13: when htt_rx_msdu_buff_in_order_replenish(num) finds the refill lock
\* taken and refill_debt below the maximum, it does not wait for the lock:
\* its one further step adds exactly num to refill_debt and returns with
\* nothing filled, the ring, the index, the buffers and the lock untouched.
C13_TrylockFailureDefers ==
    [][\A c \in RxCtx :
        /\ (/\ ctx[c].pc = "idle" /\ ctx'[c].op = "in_order"
            /\ refill_lock # "free" /\ refill_debt < RefillDebtMax) =>
                /\ ctx'[c].pc = "defer"
                /\ ctx'[c].filled = 0
                /\ refill_lock' = refill_lock
                /\ refill_debt' = refill_debt
        /\ (ctx[c].pc = "defer" /\ ctx'[c] # ctx[c]) =>
                /\ refill_debt' = refill_debt + ctx[c].req
                /\ ctx[c].req > 0 /\ ctx[c].filled = 0
                /\ ctx'[c] = CtxIdle
                /\ refill_lock' = refill_lock
                /\ fill_cnt' = fill_cnt /\ alloc_idx' = alloc_idx
                /\ posted_at' = posted_at /\ nbuf' = nbuf
                /\ hash_table' = hash_table]_vars

\* the second context asked for two buffers while the first was filling
C13_Witness ==
    /\ ctx["rx1"].pc = "defer" /\ ctx["rx1"].req = 2
    /\ refill_lock = "rx0" /\ ctx["rx0"].pc = "loop"
    /\ refill_debt = 1

\* C14: as long as no allocation fails, whatever a caller that found the
\* lock taken has added to refill_debt is filled by a lock holder: a
\* refill_debt other than 0 leads to a refill_debt of 0.
C14_DebtEventuallyPaid ==
    (<>alloc_failed) \/ ((refill_debt # 0) ~> (refill_debt = 0))

\* C15: refill_debt never exceeds the maximum, however the callers of
\* htt_rx_msdu_buff_in_order_replenish interleave.
C15_DebtBounded == refill_debt <= RefillDebtMax

\* C18: when qdf_nbuf_alloc fails inside a fill call, the call fills no
\* further slot, the retry timer is armed, the call passes the barrier and
\* writes alloc_idx, which then stands past the slots the call filled, and
\* the count it returns is the count it had filled when the allocation
\* failed.
C18_AllocFailureStopsFill ==
    [][\A c \in Ctx :
        /\ (ctx'[c].stop = "alloc" /\ ctx[c].stop # "alloc") =>
                /\ ctx[c].pc = "loop" /\ ctx'[c].pc = "mb"
                /\ timer_armed'
                /\ ctx'[c].filled = ctx[c].filled
                /\ fill_cnt' = fill_cnt
                /\ posted_at' = posted_at
                /\ alloc_idx' = alloc_idx
        /\ (/\ ctx[c].stop = "alloc" /\ ctx[c].pc \in {"mb", "publish"}
            /\ ctx'[c] # ctx[c]) =>
                /\ ctx'[c].filled = ctx[c].filled
                /\ fill_cnt' = fill_cnt
                /\ posted_at' = posted_at
                /\ timer_armed'
                /\ \/ /\ ctx[c].pc = "mb" /\ ctx'[c].pc = "publish"
                      /\ alloc_idx' = alloc_idx
                   \/ /\ ctx[c].pc = "publish" /\ ctx'[c].pc = "fill_ret"
                      /\ alloc_idx' = ctx[c].idx
                      /\ alloc_idx' = (alloc_idx + ctx[c].filled) % RingSize]_vars

\* a replenish call that asked for two buffers comes back with one after a
\* failed allocation
C18_Witness ==
    \E c \in Ctx :
        /\ ctx[c].pc = "fill_ret" /\ ctx[c].stop = "alloc"
        /\ ctx[c].op = "in_order"
        /\ ctx[c].req = 2 /\ ctx[c].filled = 1
        /\ timer_armed
        /\ alloc_idx = ctx[c].idx
        /\ hw_stale = {}

\* C19: when qdf_nbuf_map fails inside a fill call, or the hash insert in
\* full reorder offload mode, the buffer goes back to the allocator, no slot
\* and no count is spent on it, and the call stays in its loop with the
\* buffers still asked for.
C19_MapFailureContinues ==
    [][\A c \in Ctx :
        (ctx'[c].stop \in {"map", "insert"} /\ ctx[c].stop = "none") =>
            /\ nbuf' = nbuf
            /\ posted_at' = posted_at
            /\ fill_cnt' = fill_cnt
            /\ ctx'[c].idx = ctx[c].idx
            /\ ctx'[c].filled = ctx[c].filled
            /\ ctx'[c].pc = "loop"
            /\ ctx'[c].num > 0]_vars

\* C20: whenever a fill call, whoever made it, comes back short of the
\* buffers asked for because qdf_nbuf_alloc or qdf_nbuf_map failed, the
\* retry timer is armed and the caller adds the shortfall to refill_debt.
C20_ShortfallRecorded ==
    [][\A c \in Ctx :
        (/\ ctx[c].pc = "fill_ret" /\ ctx[c].stop \in {"alloc", "map"}
         /\ ctx[c].filled < ctx[c].req
         /\ ctx'[c] # ctx[c]) =>
            /\ timer_armed
            /\ refill_debt' = refill_debt + (ctx[c].req - ctx[c].filled)]_vars

(***************************************************************************)
(* Properties of the hash entries, the pops and the teardown.              *)
(***************************************************************************)
\* the pre-allocated entries of bucket i that are on its active list
PoolOnActive(i) ==
    {k \in 1 .. Len(hash_table[i].listhead) :
        hash_table[i].listhead[k].fromlist = 1}

\* C25: after any inserts and lookups each of the RX_ENTRIES_SIZE
\* pre-allocated entries of a bucket is on exactly one of the active list and
\* the free pool (the two hold RX_ENTRIES_SIZE of them together), and the
\* free pool holds pre-allocated entries only: an overflow entry (fromlist 0)
\* is on the active list until its lookup frees it
C25_EntriesConserved ==
    \A i \in Buckets :
        /\ Cardinality(PoolOnActive(i)) + Len(hash_table[i].freepool) = EntriesSize
        /\ \A k \in 1 .. Len(hash_table[i].freepool) :
              hash_table[i].freepool[k].fromlist = 1

\* a lookup has just removed an overflow entry: it hit, and the bucket still
\* has all its pre-allocated entries on the active list
C25_Witness ==
    /\ pop.kind = "lookup"
    /\ pop.netbuf # NULL
    /\ LET i == BucketIndex(Stripped(pop.arg.paddr))
       IN /\ hash_table[i].freepool = <<>>
          /\ Cardinality(PoolOnActive(i)) = EntriesSize

\* C26: when the lock holder of htt_rx_msdu_buff_in_order_replenish
\* reconciles after its fill, the debt becomes the debt before plus num minus
\* filled; when the retry callback reconciles and no other context has
\* touched the debt, the debt becomes the debt it read (its num) minus filled
C26_DebtReconciled ==
    [][\A c \in Ctx :
          (ctx[c].pc = "fill_ret" /\ ctx'[c].pc = "unlock") =>
              IF ctx[c].op = "in_order"
              THEN refill_debt' = refill_debt + ctx[c].req - ctx[c].filled
              ELSE refill_debt' = ctx[c].req - ctx[c].filled]_vars

\* a lock holder has reconciled after serving part of a debt on top of its
\* own request
C26_Witness ==
    \E c \in RxCtx :
        /\ ctx[c].pc = "unlock" /\ ctx[c].op = "in_order"
        /\ ctx[c].filled > ctx[c].req
        /\ refill_debt > 0

\* the retry callback has reconciled after a short fill
C26_WitnessRetry ==
    /\ ctx["tmr"].pc = "unlock"
    /\ ctx["tmr"].filled < ctx["tmr"].req
    /\ ctx["tmr"].filled > 0

\* C29: the debt-serving loop of htt_rx_ring_fill_n terminates: a call never
\* fills more than its request plus the debt it has counted as served, so
\* the extra passes are bounded by the debt, and a call that has entered the
\* loop reaches its return, with the index written, even while other
\* contexts add to the debt
C29_FillTerminates ==
    /\ [](\A c \in RxCtx : ctx[c].filled <= ctx[c].req + ctx[c].debt_served)
    /\ \A c \in RxCtx :
          (ctx[c].pc \in {"loop", "debt_take"}) ~> (ctx[c].pc = "fill_ret")

\* a call has returned after an extra pass for a debt
C29_Witness ==
    \E c \in RxCtx :
        /\ ctx[c].pc = "fill_ret"
        /\ ctx[c].debt_served > 0
        /\ ctx[c].filled > ctx[c].req
        /\ alloc_idx = ctx[c].idx

(***************************************************************************)
(* The write index as a word of memory that the target shares: one receive *)
(* context that attaches and replenishes in either ring mode, and a target *)
(* that overwrites the index word with a value outside the ring.           *)
(***************************************************************************)
\* values of the index word outside 0 .. size_mask
DesyncIdx == {-1, RingSize}

\* the index word, which is DMA memory shared with the target, is
\* overwritten between two calls
IndexDesync(v) ==
    /\ health = "ok" /\ attached
    /\ \A o \in Ctx : ctx[o].pc = "idle"
    /\ alloc_idx \in Slots
    /\ alloc_idx' = v
    /\ UNCHANGED <<sized, cfg, sideVars, attached, health, sw_rd_idx, fill_cnt,
                   fill_level, netbufs_ring, refillVars, hash_table, nbuf,
                   pop, alloc_failed, stepVars>>

InitDesync ==
    /\ cfg \in {[c EXCEPT !.self_recovery = s] :
                   c \in {x \in Configs : ~x.marking}, s \in BOOLEAN}
    /\ attached = FALSE
    /\ health = "ok"
    /\ alloc_idx = 0
    /\ sw_rd_idx = 0
    /\ fill_cnt = 0
    /\ fill_level = RingSize - 1
    /\ netbufs_ring = [i \in Slots |-> NULL]
    /\ refill_debt = 0
    /\ timer_armed = FALSE
    /\ hash_table = htt_rx_hash_init
    /\ nbuf = [b \in Buffers |-> NbufFree]
    /\ pop = PopNone
    /\ alloc_failed = FALSE
    /\ sized = SizedNone
    /\ StepInit

NextDesync ==
    \/ AttachStart("rx0")
    \/ AttachReturn("rx0")
    \/ FillSteps("rx0")
    \/ \E num \in 1 .. MaxStepNum : InOrderStart("rx0", num)
    \/ InOrderReconcile("rx0")
    \/ Unlock("rx0")
    \/ ReplenishStart("rx0")
    \/ FillRingCount("rx0")
    \/ ReplenishReturn("rx0")
    \/ \E v \in DesyncIdx : IndexDesync(v)

SpecDesync == InitDesync /\ [][NextDesync]_vars

\* C22: a call of htt_rx_ring_fill_n that finds the write index outside
\* 0 .. size_mask does not return as usual: it triggers recovery when self
\* recovery is enabled and aborts otherwise
C22_IndexDesyncFatal ==
    [][\A c \in Ctx :
          (/\ ctx[c].pc = "fill_entry" /\ ctx'[c].pc # "fill_entry"
           /\ (alloc_idx < 0 \/ alloc_idx > SizeMask))
          => health' = MissOutcome]_vars

(***************************************************************************)
(* Teardown, and the ring without address ordering under concurrency: a    *)
(* receive context that attaches, replenishes through                      *)
(* htt_rx_msdu_buff_replenish, handles indications and detaches, and the   *)
(* retry timer, whose callback runs in its own context whenever the timer  *)
(* has expired.                                                            *)
(***************************************************************************)
InitRace ==
    /\ cfg \in {c \in Configs : ~c.full_reorder /\ ~c.marking}
    /\ attached = FALSE
    /\ health = "ok"
    /\ alloc_idx = 0
    /\ sw_rd_idx = 0
    /\ fill_cnt = 0
    /\ fill_level = RingSize - 1
    /\ netbufs_ring = [i \in Slots |-> NULL]
    /\ refill_debt = 0
    /\ timer_armed = FALSE
    /\ hash_table = htt_rx_hash_init
    /\ nbuf = [b \in Buffers |-> NbufFree]
    /\ pop = PopNone
    /\ alloc_failed = FALSE
    /\ sized = SizedNone
    /\ StepInit

\* what one loop iteration meets here: qdf_nbuf_map always succeeds, and
\* qdf_nbuf_alloc fails when no buffer is left and at most once before that
RaceOutcomes ==
    IF FreeBufs(nbuf) = {} THEN {"alloc"}
    ELSE IF alloc_failed THEN {"none"} ELSE {"none", "alloc"}

\* the steps of htt_rx_ring_fill_n in context c; refill_debt stays 0 in
\* this mode, so no debt pass is made
RaceFillSteps(c) ==
    \/ FillEntry(c)
    \/ \E kind \in RaceOutcomes : FillIter(c, kind)
    \/ FillDebtCheck(c)
    \/ FillBarrier(c)
    \/ FillPublish(c)

NextRace ==
    \/ AttachStart("rx0")
    \/ AttachReturn("rx0")
    \/ \E c \in {"rx0", "tmr"} : RaceFillSteps(c)
    \/ ReplenishStart("rx0")
    \/ FillRingCount("rx0")
    \/ ReplenishReturn("rx0")
    \/ TimerFire("tmr")
    \/ LockAcquire("tmr")
    \/ RetrySteps("tmr")
    \/ Unlock("tmr")
    \/ \E descs \in OrderedDescs(SpecMsdu, {100}, 1, {FALSE}) :
          RxOrdered("rx0", descs)
    \/ htt_rx_detach

SpecRace == InitRace /\ [][NextRace]_vars

\* the positions inside htt_rx_ring_fill_n
InFill == {"fill_entry", "loop", "debt_take", "mb", "publish"}

\* C30: after attach at most one context is inside htt_rx_ring_fill_n at any
\* time, whichever entry points the contexts came through
C30_OneFiller ==
    Cardinality({c \in Ctx : ctx[c].pc \in InFill}) <= 1

\* C28: in the mode without address ordering the pops return the buffers in
\* the order they were written to the ring: each pop returns the oldest
\* buffer written and not yet popped, sw_rd_idx advances by one per pop
\* modulo the ring size and fill_cnt drops by one per pop
C28_PopInPostingOrder ==
    [][sw_rd_idx' # sw_rd_idx =>
          LET n == (sw_rd_idx' - sw_rd_idx) % RingSize
          IN /\ fill_cnt' = fill_cnt - n
             /\ Len(post_order) >= n
             /\ \A j \in 1 .. n :
                   netbufs_ring[(sw_rd_idx + j - 1) % RingSize] = post_order[j]]_vars

\* C21: after teardown every buffer that was posted and never retrieved has
\* been unmapped and released: no buffer is left mapped
C21_TeardownReleasesAll ==
    health = "detached" => \A b \in Buffers : nbuf[b].st = "free"

\* C27: every buffer htt_rx_amsdu_pop_ll takes from the ring, the
\* continuation buffers of a chained MSDU included, has been unmapped by the
\* time it is linked into the chain the call returns
C27_ChainUnmapped ==
    pop.kind = "ordered" =>
        \A i \in 1 .. Len(Chain) : nbuf[Chain[i]].st = "unmapped"

(***************************************************************************)
(* The pops with a target that has not finished every buffer it reports,   *)
(* in the builds with and without DEBUG_DMA_DONE and HTT_RX_RESTORE, and   *)
(* with the caller's count word: the ring as htt_rx_attach leaves it, then *)
(* indications of one buffer per MSDU.                                     *)
(***************************************************************************)
\* the MSDU_DONE bit of a buffer the target reports: set, set only after a
\* delay of the host, or not set
DoneMarks == {"done", "late", "never"}

\* the messages of msgs with every choice of MSDU_DONE bits
WithMarks(msgs) ==
    UNION {{[i \in 1 .. Len(m) |-> [m[i] EXCEPT !.done = k[i]]] :
               k \in [1 .. Len(m) -> DoneMarks]} : m \in msgs}

InitPop ==
    /\ cfg \in {[c EXCEPT !.debug_dma_done = d, !.rx_restore = d /\ rs] :
                   c \in {x \in Configs : ~x.marking}, d \in BOOLEAN,
                   rs \in BOOLEAN}
    /\ attached = TRUE
    /\ health = "ok"
    /\ sw_rd_idx = 0
    /\ fill_level = RingSize - 1
    /\ refill_debt = 0
    /\ pop \in {[PopNone EXCEPT !.count = v] : v \in 0 .. MaxMsdu}
    /\ sized = SizedNone
    /\ StepInit
    /\ LET f == FillLoop([idx |-> 0, num |-> RingSize - 1, filled |-> 0,
                          debt_served |-> 0, fc |-> 0,
                          ring |-> [i \in Slots |-> NULL],
                          ht |-> htt_rx_hash_init,
                          nb |-> [b \in Buffers |-> NbufFree],
                          timer |-> FALSE, afail |-> FALSE], 0, NoFail)
       IN /\ alloc_idx = f.idx
          /\ fill_cnt = f.fc
          /\ netbufs_ring = f.ring
          /\ hash_table = f.ht
          /\ nbuf = f.nb
          /\ timer_armed = f.timer
          /\ alloc_failed = f.afail

NextPop ==
    \/ \E msg \in WithMarks(InOrdMsgs(MaxMsdu, InOrdPlain)) : InOrderPop(msg)
    \/ \E descs \in WithMarks(OrderedDescs(MaxMsdu, {100}, 0, {FALSE})) :
          OrderedPop(descs)
    \/ Deliver

SpecPop == InitPop /\ [][NextPop]_vars

\* C23: in both ring modes a pop that returns (that does not end in the
\* fatal path) returns a chain in which every buffer had its MSDU_DONE bit
\* set when it was popped; a bit that the retries of the debug build found
\* set counts as set
C23_NoUndoneInChain ==
    (pop.kind \in {"ordered", "in_order"} /\ health = "ok") =>
        \A i \in 1 .. Len(Chain) :
            \/ pop.msg[i].done = "done"
            \/ pop.kind = "ordered" /\ OrderedDone(pop.msg[i])

\* C24: after a pop the caller's count word holds the number of buffers
\* the call consumed
C24_CountReturned ==
    pop.kind \in {"ordered", "in_order"} => pop.count = pop.taken

(***************************************************************************)
(* The debt pass with small requests: the contexts of SpecDebt, without    *)
(* the fairness, each call for one buffer, so that a second call can be    *)
(* deferred while the lock holder serves the first.                        *)
(***************************************************************************)
NextServe ==
    \/ AttachStart("rx0")
    \/ \E c \in RxCtx :
        \/ CallSteps(c)
        \/ InOrderStart(c, 1)
        \/ \E msg \in InOrdMsgs(SpecMsdu, InOrdPlain) :
              EarlyMsg(msg, 1) /\ RxInOrder(c, msg)

SpecServe == InitRefill /\ [][NextServe]_vars

\* C35: under any interleaving of callers of
\* htt_rx_msdu_buff_in_order_replenish no lock holder serves the same debt
\* twice, so refill_debt is never negative
C35_DebtNeverNegative == refill_debt >= 0

\* C40: under any interleaving of fills and pops fill_cnt is the number of
\* buffers posted and not yet popped and, in the mode without address
\* ordering, whenever no call is in progress it is congruent modulo the
\* ring size to htt_rx_ring_elems, (alloc_idx - sw_rd_idx) masked
C40_FillCntIsPosted ==
    health = "ok" =>
        /\ fill_cnt = Cardinality(Posted)
        /\ (/\ attached /\ ~cfg.full_reorder
            /\ \A c \in Ctx : ctx[c].pc = "idle")
           => fill_cnt % RingSize = htt_rx_ring_elems

(***************************************************************************)
(* Reassembly on indications that name a buffer the table does not hold:   *)
(* the ring of SpecReasm, in address-ordered mode, and records that may    *)
(* name any buffer of the pool, posted or not.                             *)
(***************************************************************************)
\* the in-order indications of up to maxN records, each naming a different
\* buffer of the pool whether or not the target holds it
StaleMsgs(maxN, kinds) ==
    IF CanStart /\ attached /\ cfg.full_reorder
    THEN InOrdSeqs(maxN, Buffers, kinds) \ {<<>>}
    ELSE {}

\* the erroring and the good record of the shortest length
MissKinds == {k \in InOrdKinds : k.len = 60 /\ ~k.discard}

InitMiss ==
    /\ InitReasm
    /\ cfg.full_reorder

NextMiss ==
    \/ \E msg \in StaleMsgs(MaxMsdu, MissKinds) : InOrderPop(msg)
    \/ Deliver

SpecMiss == InitMiss /\ [][NextMiss]_vars

\* C36: on every return of htt_rx_amsdu_rx_in_order_pop_ll the pair
\* (head, tail) is consistent: both are NULL, or the tail is reached from
\* the head by the next links and the tail's next link is NULL; a failed
\* lookup for a later MSDU does not leave the buffers already removed in a
\* chain with a NULL tail
C36_HeadTailConsistent ==
    (pop.kind = "in_order" /\ health # "aborted") =>
        \/ pop.head = NULL /\ pop.tail = NULL
        \/ /\ pop.head # NULL
           /\ pop.tail # NULL
           /\ \E i \in 1 .. Len(Chain) : Chain[i] = pop.tail
           /\ nbuf[pop.tail].next = NULL

\* C37: for each MSDU of an in-order indication the fate passed to the
\* packet dump callback is RX_PKT_FATE_FW_DROP_INVALID exactly when that
\* MSDU has an error flag set with the discard flag clear, and
\* RX_PKT_FATE_SUCCESS otherwise, whatever the MSDUs before it were
C37_FatePerMsdu ==
    pop.kind = "in_order" =>
        \A i \in 1 .. Len(pop.fates) :
            pop.fates[i] = IF Erroring(i) THEN RX_PKT_FATE_FW_DROP_INVALID
                           ELSE RX_PKT_FATE_SUCCESS

\* C38: the amount by which an unchained MSDU is trimmed,
\* HTT_RX_BUF_SIZE - (RX_STD_DESC_SIZE + length), is never negative, in
\* htt_rx_amsdu_pop_ll for the lengths the trim is applied to and in
\* htt_rx_amsdu_rx_in_order_pop_ll for every length of the message, and no
\* buffer of the chain is longer than the room after the rx descriptor
C38_UnchainedTrimNotNegative ==
    pop.kind \in {"ordered", "in_order"} =>
        /\ \A i \in 1 .. Len(pop.trims) : pop.trims[i] >= 0
        /\ (pop.kind = "ordered" => \A i \in 1 .. MsgLen : Msg[i].chained = 0)
           => \A i \in 1 .. Len(Chain) :
                 nbuf[Chain[i]].len <= HTT_RX_BUF_SIZE - RX_STD_DESC_SIZE

(***************************************************************************)
(* The rx ring of a pdev that no handler runs on: the state the other      *)
(* components are checked beside.                                          *)
(***************************************************************************)
PdevFresh ==
    /\ cfg \in Configs
    /\ attached = FALSE
    /\ health = "ok"
    /\ alloc_idx = 0
    /\ sw_rd_idx = 0
    /\ fill_cnt = 0
    /\ fill_level = RingSize - 1
    /\ netbufs_ring = [i \in Slots |-> NULL]
    /\ refill_debt = 0
    /\ timer_armed = FALSE
    /\ hash_table = htt_rx_hash_init
    /\ nbuf = [b \in Buffers |-> NbufFree]
    /\ pop = PopNone
    /\ alloc_failed = FALSE
    /\ sized = SizedNone
    /\ StepVarsInit

(***************************************************************************)
(* The high-latency descriptor accessors on the first word of              *)
(* struct hl_htt_rx_desc_base.                                             *)
(***************************************************************************)
\* the fields of the word: seq_num (12 bits), encrypted, chan_info_present,
\* two reserved bits, mcast_bcast, fragment, key_id_oct (8 bits)
HTT_HL_RX_DESC_MCAST_BCAST_S == 16
HTT_HL_RX_DESC_MCAST_BCAST_M == Pow2(HTT_HL_RX_DESC_MCAST_BCAST_S)
HTT_HL_RX_DESC_FRAGMENT_S == 17
HTT_HL_RX_DESC_FRAGMENT_M == Pow2(HTT_HL_RX_DESC_FRAGMENT_S)

\* HTT_WORD_GET(word, FIELD): (word & FIELD_M) >> FIELD_S for a mask m of
\* adjacent bits that starts at bit s
HTT_WORD_GET(word, m, s) == (word \div Pow2(s)) % ((m \div Pow2(s)) + 1)

htt_rx_msdu_is_wlan_mcast_hl(word) ==
    HTT_WORD_GET(word, HTT_HL_RX_DESC_MCAST_BCAST_M,
                 HTT_HL_RX_DESC_MCAST_BCAST_S)

\* the fragment field of the word
DescFragment(word) ==
    HTT_WORD_GET(word, HTT_HL_RX_DESC_FRAGMENT_M, HTT_HL_RX_DESC_FRAGMENT_S)

\* htt_rx_msdu_is_frag_hl as written: it reads HTT_HL_RX_DESC_MCAST_BCAST
htt_rx_msdu_is_frag_hl(word) ==
    HTT_WORD_GET(word, HTT_HL_RX_DESC_MCAST_BCAST_M,
                 HTT_HL_RX_DESC_MCAST_BCAST_S)

\* bits of the other fields: seq_num, encrypted, chan_info_present,
\* key_id_oct
DescOtherBits == {0, 11, 12, 13, 25}

RECURSIVE BitsWord(_)
BitsWord(bits) ==
    IF bits = {} THEN 0
    ELSE LET b == CHOOSE x \in bits : TRUE
         IN Pow2(b) + BitsWord(bits \ {b})

\* the first words the target can write
DescWords ==
    {BitsWord(bits) :
        bits \in SUBSET (DescOtherBits \cup {HTT_HL_RX_DESC_MCAST_BCAST_S,
                                            HTT_HL_RX_DESC_FRAGMENT_S})}

\* htt_rx_msdu_is_frag(pdev, msdu_desc) through the function pointer
MsduIsFrag ==
    /\ msdu_desc.op = "none"
    /\ msdu_desc' = [msdu_desc EXCEPT
                        !.op = "is_frag",
                        !.result = htt_rx_msdu_is_frag_hl(msdu_desc.word)]
    /\ UNCHANGED <<pdevVars, rx_attach, eppingVars>>

\* htt_rx_msdu_is_wlan_mcast(pdev, msdu_desc) through the function pointer
MsduIsWlanMcast ==
    /\ msdu_desc.op = "none"
    /\ msdu_desc' = [msdu_desc EXCEPT
                        !.op = "is_wlan_mcast",
                        !.result = htt_rx_msdu_is_wlan_mcast_hl(msdu_desc.word)]
    /\ UNCHANGED <<pdevVars, rx_attach, eppingVars>>

InitAccess ==
    /\ PdevFresh
    /\ msdu_desc \in {[DescNone EXCEPT !.word = w] : w \in DescWords}
    /\ rx_attach = AttachNone
    /\ EppingInit

NextAccess == MsduIsFrag \/ MsduIsWlanMcast

SpecAccess == InitAccess /\ [][NextAccess]_vars

\* C31: htt_rx_msdu_is_frag_hl returns the fragment field of the descriptor:
\* the result is the value of that field whatever the mcast_bcast bit, the
\* field htt_rx_msdu_is_wlan_mcast_hl reads, is
C31_IsFragReadsFragment ==
    msdu_desc.op = "is_frag" =>
        msdu_desc.result = DescFragment(msdu_desc.word)

(***************************************************************************)
(* htt_rx_attach up to its first fill: the allocations, one step each,     *)
(* any of which can fail, and the unwinding at fail4 .. fail1.             *)
(***************************************************************************)
\* buckets htt_rx_hash_init allocates (RX_NUM_HASH_BUCKETS, scaled)
HashInitBuckets == 3
\* sizeof(struct htt_rx_hash_bucket): two list heads and the entries pointer
SizeofHashBucket == 40

\* the objects attach allocates
AttachObj(name) == [obj |-> name, i |-> 0]
BucketObj(i) == [obj |-> "bucket", i |-> i]

\* what qdf_mem_malloc returns for bucket i
BucketBase(i, ok) == IF ok THEN 4096 * (i + 1) ELSE NULL

\* pdev->rx_ring.hash_table[i]->entries: the bucket's address plus
\* sizeof(struct htt_rx_hash_bucket)
BucketEntries(base) == base + SizeofHashBucket

\* a store through a NULL pointer either faults or lands
NullStoreOutcomes == {"fault", "store"}

\* qdf_mem_free or qdf_mem_free_consistent of object o
AttachFree(a, o) ==
    IF o \in a.live THEN [a EXCEPT !.live = @ \ {o}]
    ELSE [a EXCEPT !.bad_free = TRUE]

\* while (i) { i--; qdf_mem_free(hash_table[i]); }
RECURSIVE FreeBucketsBelow(_, _)
FreeBucketsBelow(a, i) ==
    IF i = 0 THEN a
    ELSE FreeBucketsBelow(
            IF (i - 1) \in a.null_bucket THEN a
            ELSE AttachFree(a, BucketObj(i - 1)), i - 1)

\* htt_rx_hash_deinit on the table attach has just built: it reads
\* hash_table[i]->listhead.next of every bucket, then frees the bucket, and
\* frees the array
AttachHashDeinit(a) ==
    IF AttachObj("hash_table") \notin a.live THEN a
    ELSE AttachFree(
            [FreeBucketsBelow(a, HashInitBuckets) EXCEPT
                !.null_deref = @ \/ a.null_bucket # {}],
            AttachObj("hash_table"))

AttachReturn1(a) == [a EXCEPT !.pc = "done", !.ret = 1]

\* fail2: htt_rx_hash_deinit in address-ordered mode; fail1: return 1
AttachFail2(a) ==
    AttachReturn1(IF cfg.full_reorder THEN AttachHashDeinit(a) ELSE a)

\* fail3: the target index or the netbufs ring
AttachFail3(a) ==
    AttachFail2(AttachFree(a, IF cfg.full_reorder
                              THEN AttachObj("target_idx")
                              ELSE AttachObj("netbufs_ring")))

\* fail4: the paddrs ring
AttachFail4(a) == AttachFail3(AttachFree(a, AttachObj("paddrs_ring")))

\* the allocation of object name has failed
AttachFailed(a, o) == [a EXCEPT !.failed = @ \cup {o}]

\* htt_rx_attach is called: ring size and fill level, then the branch on
\* is_full_reorder_offload
AttachCall ==
    /\ rx_attach.pc = "none"
    /\ rx_attach' = [rx_attach EXCEPT
                        !.pc = IF cfg.full_reorder THEN "hash_table"
                               ELSE "netbufs_ring"]
    /\ UNCHANGED <<pdevVars, msdu_desc, eppingVars>>

\* htt_rx_hash_init: the array of bucket pointers
HashTableAlloc(ok) ==
    LET o == AttachObj("hash_table")
    IN /\ rx_attach.pc = "hash_table"
       /\ rx_attach' =
            IF ok THEN [rx_attach EXCEPT !.live = @ \cup {o}, !.pc = "bucket"]
            ELSE AttachReturn1(AttachFailed(rx_attach, o))
       /\ UNCHANGED <<pdevVars, msdu_desc, eppingVars>>

\* one pass of the loop of htt_rx_hash_init: the bucket is allocated, its
\* lists are initialised through the pointer, and only then the entries
\* pointer, which is the bucket's address plus an offset, is compared with
\* NULL
BucketAlloc(ok, outcome) ==
    LET a == rx_attach
        o == BucketObj(a.i)
        base == BucketBase(a.i, ok)
        b == IF ok THEN [a EXCEPT !.live = @ \cup {o}]
             ELSE [AttachFailed(a, o) EXCEPT
                       !.null_deref = TRUE,
                       !.null_bucket = @ \cup {a.i}]
    IN /\ a.pc = "bucket"
       /\ ok => outcome = "store"
       /\ rx_attach' =
            IF outcome = "fault" THEN [b EXCEPT !.pc = "fault"]
            ELSE IF BucketEntries(base) = NULL
            THEN AttachReturn1(
                    AttachFree(FreeBucketsBelow(b, b.i),
                               AttachObj("hash_table")))
            ELSE [b EXCEPT !.i = @ + 1,
                           !.pc = IF a.i + 1 = HashInitBuckets
                                  THEN "target_idx" ELSE "bucket"]
       /\ UNCHANGED <<pdevVars, msdu_desc, eppingVars>>

\* pdev->rx_ring.target_idx.vaddr
TargetIdxAlloc(ok) ==
    LET o == AttachObj("target_idx")
    IN /\ rx_attach.pc = "target_idx"
       /\ rx_attach' =
            IF ok THEN [rx_attach EXCEPT !.live = @ \cup {o},
                                         !.pc = "paddrs_ring"]
            ELSE AttachFail2(AttachFailed(rx_attach, o))
       /\ UNCHANGED <<pdevVars, msdu_desc, eppingVars>>

\* pdev->rx_ring.buf.netbufs_ring
NetbufsRingAlloc(ok) ==
    LET o == AttachObj("netbufs_ring")
    IN /\ rx_attach.pc = "netbufs_ring"
       /\ rx_attach' =
            IF ok THEN [rx_attach EXCEPT !.live = @ \cup {o},
                                         !.pc = "paddrs_ring"]
            ELSE AttachReturn1(AttachFailed(rx_attach, o))
       /\ UNCHANGED <<pdevVars, msdu_desc, eppingVars>>

\* pdev->rx_ring.buf.paddrs_ring
PaddrsRingAlloc(ok) ==
    LET o == AttachObj("paddrs_ring")
    IN /\ rx_attach.pc = "paddrs_ring"
       /\ rx_attach' =
            IF ok THEN [rx_attach EXCEPT !.live = @ \cup {o},
                                         !.pc = "alloc_idx"]
            ELSE AttachFail3(AttachFailed(rx_attach, o))
       /\ UNCHANGED <<pdevVars, msdu_desc, eppingVars>>

\* pdev->rx_ring.alloc_idx.vaddr; when it succeeds attach initialises the
\* counters, fills the ring and returns 0
AllocIdxAlloc(ok) ==
    LET o == AttachObj("alloc_idx")
    IN /\ rx_attach.pc = "alloc_idx"
       /\ rx_attach' =
            IF ok THEN [rx_attach EXCEPT !.live = @ \cup {o}, !.pc = "done",
                                         !.ret = 0]
            ELSE AttachFail4(AttachFailed(rx_attach, o))
       /\ UNCHANGED <<pdevVars, msdu_desc, eppingVars>>

InitAttach ==
    /\ PdevFresh
    /\ msdu_desc = DescNone
    /\ rx_attach = AttachNone
    /\ EppingInit

NextAttach ==
    \/ AttachCall
    \/ \E ok \in BOOLEAN :
        \/ HashTableAlloc(ok)
        \/ \E outcome \in NullStoreOutcomes : BucketAlloc(ok, outcome)
        \/ TargetIdxAlloc(ok)
        \/ NetbufsRingAlloc(ok)
        \/ PaddrsRingAlloc(ok)
        \/ AllocIdxAlloc(ok)

SpecAttach == InitAttach /\ [][NextAttach]_vars

\* C39: when an allocation of htt_rx_attach fails, attach returns 1 with
\* everything it allocated before released exactly once, and no object that
\* was not allocated is dereferenced on the way
C39_AttachFailureUnwinds ==
    /\ ~rx_attach.null_deref
    /\ (rx_attach.pc = "done" /\ rx_attach.failed # {}) =>
          /\ rx_attach.ret = 1
          /\ rx_attach.live = {}
          /\ ~rx_attach.bad_free

(***************************************************************************)
(* The endpoint-ping transmit path: epping_tx_send in the transmit         *)
(* context and epping_tx_timer_expire in the timer context, step by step.  *)
(* Only the test and set of epping_timer_state at the end of each handler  *)
(* runs under pAdapter->data_lock; every operation on nodrop_queue is a    *)
(* step of its own.                                                        *)
(***************************************************************************)
\* most packets submitted to epping_tx_send in one run
MaxPkts == 3
ENOMEM == 12

EPPING_TX_TIMER_STOPPED == "EPPING_TX_TIMER_STOPPED"
EPPING_TX_TIMER_RUNNING == "EPPING_TX_TIMER_RUNNING"

\* the header bits epping_tx_send reads: IS_EPPING_PACKET, StreamNo_h and
\* IS_EPING_PACKET_NO_DROP
EppingHdrs ==
    {[epping |-> TRUE, ac |-> 0, no_drop |-> TRUE],
     [epping |-> TRUE, ac |-> 1, no_drop |-> FALSE],
     [epping |-> FALSE, ac |-> 0, no_drop |-> TRUE],
     [epping |-> TRUE, ac |-> 2, no_drop |-> TRUE]}

\* the packet passes the two checks at the head of epping_tx_send
EppingValid(hdr) == hdr.epping /\ hdr.ac \in {0, 1}

\* epping_tx_send(skb, pAdapter) is called: the checks of the header; a
\* packet that fails them is freed and the call returns -ENOMEM
EppingTxSend(hdr) ==
    LET id == Len(skbs) + 1
    IN /\ ep["tx"].pc = "idle"
       /\ Len(skbs) < MaxPkts
       /\ skbs' = Append(skbs, [hdr |-> hdr, freed |-> ~EppingValid(hdr)])
       /\ ep' = [ep EXCEPT !["tx"] =
                    IF EppingValid(hdr)
                    THEN [EpIdle EXCEPT !.pc = "drain", !.skb = id,
                                        !.dropped0 = tx_dropped]
                    ELSE [EpIdle EXCEPT !.skb = id, !.ret = 0 - ENOMEM]]
       /\ UNCHANGED <<pdevVars, msdu_desc, rx_attach, nodrop_queue,
                      epping_timer_state, epping_timer, tx_dropped, htc_pkts>>

\* nodrop_skb = cdf_nbuf_queue_remove(&pAdapter->nodrop_queue), in the loop
\* of either handler; after is where the handler goes when the queue is
\* empty
QueueRemove(c, at, send, after) ==
    /\ ep[c].pc = at
    /\ IF nodrop_queue = <<>>
       THEN /\ ep' = [ep EXCEPT ![c].nodrop_skb = NULL, ![c].pc = after]
            /\ UNCHANGED nodrop_queue
       ELSE /\ ep' = [ep EXCEPT ![c].nodrop_skb = Head(nodrop_queue),
                                ![c].pc = send]
            /\ nodrop_queue' = Tail(nodrop_queue)
    /\ UNCHANGED <<pdevVars, msdu_desc, rx_attach, epping_timer_state,
                   epping_timer, tx_dropped, htc_pkts, skbs>>

\* epping_tx_send_int(nodrop_skb, pAdapter) on the packet taken from the
\* queue: it fails when there is no cookie or htc_send_pkt fails
QueuedSend(c, at, again, back, ok) ==
    /\ ep[c].pc = at
    /\ htc_pkts' = IF ok THEN Append(htc_pkts, ep[c].nodrop_skb) ELSE htc_pkts
    /\ ep' = [ep EXCEPT ![c].pc = IF ok THEN again ELSE back]
    /\ UNCHANGED <<pdevVars, msdu_desc, rx_attach, nodrop_queue,
                   epping_timer_state, epping_timer, tx_dropped, skbs>>

\* cdf_nbuf_queue_insert_head(&pAdapter->nodrop_queue, nodrop_skb) after the
\* failed send
QueueInsertHead(c, at, next) ==
    /\ ep[c].pc = at
    /\ nodrop_queue' = <<ep[c].nodrop_skb>> \o nodrop_queue
    /\ ep' = [ep EXCEPT ![c].pc = next, ![c].failed = TRUE]
    /\ UNCHANGED <<pdevVars, msdu_desc, rx_attach, epping_timer_state,
                   epping_timer, tx_dropped, htc_pkts, skbs>>

\* epping_tx_send_int(skb, pAdapter) on the packet of the call
TxSendSkb(ok) ==
    /\ ep["tx"].pc = "send"
    /\ htc_pkts' = IF ok THEN Append(htc_pkts, ep["tx"].skb) ELSE htc_pkts
    /\ ep' = [ep EXCEPT !["tx"].pc = IF ok THEN "idle" ELSE "tx_fail",
                        !["tx"].failed = ~ok,
                        !["tx"].ret = 0]
    /\ UNCHANGED <<pdevVars, msdu_desc, rx_attach, nodrop_queue,
                   epping_timer_state, epping_timer, tx_dropped, skbs>>

\* TxFail that drops the packet whatever its header says
TxFailDropAny ==
    LET id == ep["tx"].skb
    IN /\ ep["tx"].pc = "tx_fail"
       /\ skbs' = [skbs EXCEPT ![id].freed = TRUE]
       /\ tx_dropped' = tx_dropped + 1
       /\ ep' = [ep EXCEPT !["tx"].pc = "idle",
                           !["tx"].ret = 0 - ENOMEM]
       /\ UNCHANGED nodrop_queue
       /\ UNCHANGED <<pdevVars, msdu_desc, rx_attach, epping_timer_state,
                      epping_timer, htc_pkts>>

\* tx_fail: a packet that may be dropped is freed and counted, and the call
\* returns -ENOMEM; a no-drop packet is added to the tail of the queue
TxFail ==
    LET id == ep["tx"].skb
    IN /\ ep["tx"].pc = "tx_fail"
       /\ IF ~skbs[id].hdr.no_drop
          THEN /\ skbs' = [skbs EXCEPT ![id].freed = TRUE]
               /\ tx_dropped' = tx_dropped + 1
               /\ ep' = [ep EXCEPT !["tx"].pc = "idle",
                                   !["tx"].ret = 0 - ENOMEM]
               /\ UNCHANGED nodrop_queue
          ELSE /\ nodrop_queue' = Append(nodrop_queue, id)
               /\ ep' = [ep EXCEPT !["tx"].pc = "arm", !["tx"].queued = TRUE]
               /\ UNCHANGED <<skbs, tx_dropped>>
       /\ UNCHANGED <<pdevVars, msdu_desc, rx_attach, epping_timer_state,
                      epping_timer, htc_pkts>>

\* under data_lock: the timer is started unless the state says it runs
ArmTimer ==
    /\ epping_timer_state' = EPPING_TX_TIMER_RUNNING
    /\ epping_timer' = (epping_timer
                        \/ epping_timer_state # EPPING_TX_TIMER_RUNNING)

\* the end of epping_tx_send for a queued packet: return 0
TxArm ==
    /\ ep["tx"].pc = "arm"
    /\ ArmTimer
    /\ ep' = [ep EXCEPT !["tx"].pc = "idle", !["tx"].ret = 0]
    /\ UNCHANGED <<pdevVars, msdu_desc, rx_attach, nodrop_queue, tx_dropped,
                   htc_pkts, skbs>>

\* the timer expires: its callback epping_timer_expire sets the state to
\* stopped and calls epping_tx_timer_expire
epping_timer_expire ==
    /\ epping_timer
    /\ ep["tmr"].pc = "idle"
    /\ epping_timer' = FALSE
    /\ epping_timer_state' = EPPING_TX_TIMER_STOPPED
    /\ ep' = [ep EXCEPT !["tmr"] = [EpIdle EXCEPT !.pc = "check"]]
    /\ UNCHANGED <<pdevVars, msdu_desc, rx_attach, nodrop_queue, tx_dropped,
                   htc_pkts, skbs>>

\* the head of epping_tx_timer_expire: an empty queue stops the timer
TimerCheck ==
    /\ ep["tmr"].pc = "check"
    /\ IF Len(nodrop_queue) = 0
       THEN /\ epping_timer_state' = EPPING_TX_TIMER_STOPPED
            /\ ep' = [ep EXCEPT !["tmr"].pc = "idle"]
       ELSE /\ ep' = [ep EXCEPT !["tmr"].pc = "drain"]
            /\ UNCHANGED epping_timer_state
    /\ UNCHANGED <<pdevVars, msdu_desc, rx_attach, nodrop_queue, epping_timer,
                   tx_dropped, htc_pkts, skbs>>

\* the end of epping_tx_timer_expire: the timer is started again if the
\* loop ended on a packet, else the state is set to stopped, outside the
\* lock
TimerEnd ==
    /\ ep["tmr"].pc = "end"
    /\ IF ep["tmr"].nodrop_skb # NULL
       THEN ArmTimer
       ELSE /\ epping_timer_state' = EPPING_TX_TIMER_STOPPED
            /\ UNCHANGED epping_timer
    /\ ep' = [ep EXCEPT !["tmr"].pc = "idle"]
    /\ UNCHANGED <<pdevVars, msdu_desc, rx_attach, nodrop_queue, tx_dropped,
                   htc_pkts, skbs>>

\* the steps inside epping_tx_send
TxSteps ==
    \/ QueueRemove("tx", "drain", "drain_send", "send")
    \/ \E ok \in BOOLEAN : QueuedSend("tx", "drain_send", "drain", "back", ok)
    \/ QueueInsertHead("tx", "back", "tx_fail")
    \/ \E ok \in BOOLEAN : TxSendSkb(ok)
    \/ TxFail
    \/ TxArm

\* the steps inside epping_tx_timer_expire
TimerSteps ==
    \/ TimerCheck
    \/ QueueRemove("tmr", "drain", "drain_send", "end")
    \/ \E ok \in BOOLEAN : QueuedSend("tmr", "drain_send", "drain", "back", ok)
    \/ QueueInsertHead("tmr", "back", "end")
    \/ TimerEnd

InitEpping ==
    /\ PdevFresh
    /\ msdu_desc = DescNone
    /\ rx_attach = AttachNone
    /\ EppingInit

NextEpping ==
    \/ \E hdr \in EppingHdrs : EppingTxSend(hdr)
    \/ TxSteps
    \/ epping_timer_expire
    \/ TimerSteps

SpecEpping == InitEpping /\ [][NextEpping]_vars

\* the other context is outside its handler
EpAlone(c) == \A d \in EpCtx \ {c} : ep[d].pc = "idle"

\* the two handlers one at a time
NextEppingSerial ==
    \/ \E hdr \in EppingHdrs : EppingTxSend(hdr) /\ EpAlone("tx")
    \/ TxSteps
    \/ epping_timer_expire /\ EpAlone("tmr")
    \/ TimerSteps

SpecEppingSerial == InitEpping /\ [][NextEppingSerial]_vars

\* the packets that passed the checks of the header and may not be dropped
NoDropIds ==
    {id \in 1 .. Len(skbs) :
        EppingValid(skbs[id].hdr) /\ skbs[id].hdr.no_drop}

\* the packets that passed the checks and were dropped at tx_fail
DroppedIds ==
    {id \in 1 .. Len(skbs) :
        EppingValid(skbs[id].hdr) /\ ~skbs[id].hdr.no_drop /\ skbs[id].freed}

\* C32: epping_tx_send never drops a valid no-drop packet: when its own send
\* or the send of a queued predecessor fails, the packet is appended to the
\* nodrop queue, not freed, tx_dropped is not incremented and the call
\* returns 0; only packets that may be dropped are freed and counted in
\* tx_dropped, with -ENOMEM
C32_NoDropNeverDropped ==
    /\ [](\A id \in NoDropIds : ~skbs[id].freed)
    /\ [](tx_dropped = Cardinality(DroppedIds))
    /\ [](LET t == ep["tx"]
          IN (t.pc = "idle" /\ t.skb # 0 /\ t.failed) =>
                IF skbs[t.skb].hdr.no_drop
                THEN t.queued /\ tx_dropped = t.dropped0 /\ t.ret = 0
                ELSE /\ skbs[t.skb].freed
                     /\ tx_dropped = t.dropped0 + 1
                     /\ t.ret = 0 - ENOMEM)
    /\ [][(ep'["tx"].queued /\ ~ep["tx"].queued) =>
             nodrop_queue' = Append(nodrop_queue, ep["tx"].skb)]_vars

\* a no-drop packet queued behind a predecessor whose send failed in the
\* same call
C32_Witness ==
    /\ ep["tx"].pc = "idle"
    /\ ep["tx"].failed
    /\ ep["tx"].queued
    /\ ep["tx"].ret = 0
    /\ ep["tx"].skb = 2
    /\ nodrop_queue = <<1, 2>>
    /\ tx_dropped = 0

\* C33: the no-drop packets are handed to HTC in the order they were
\* submitted, and no packet is handed to HTC while an older no-drop packet
\* has not been
C33_QueueOrderKept ==
    \A i \in 1 .. Len(htc_pkts) :
        \A q \in NoDropIds :
            q < htc_pkts[i] => \E j \in 1 .. i - 1 : htc_pkts[j] = q

\* C34: whenever both handlers have returned and the nodrop queue is not
\* empty, the retry timer is armed: an expiry is pending and
\* epping_timer_state is EPPING_TX_TIMER_RUNNING
C34_TimerArmedWhileQueued ==
    (/\ \A c \in EpCtx : ep[c].pc = "idle"
     /\ nodrop_queue # <<>>)
    => /\ epping_timer
       /\ epping_timer_state = EPPING_TX_TIMER_RUNNING

====
